---- MODULE Spec2Model ----
(***************************************************************************)
(* Trade lifecycle orchestrator of web_execution_agent:                    *)
(*   backend/engine/trade_manager.py   (TradeManager, ErrorHandler,        *)
(*                                      TradeLifecycleLogger)              *)
(*   backend/engine/order_executor.py  (OrderExecutor)                     *)
(*   backend/engine/{entry,stop_loss,take_profit,trailing_stop}_evaluator  *)
(*                                                                         *)
(* The persisted trade set (saved_trades.json) is `file`, the list         *)
(* TradeManager.trades loaded once in __init__ is `trades`.  Every public  *)
(* operation is one action; the handlers are modelled without interleaving *)
(* at their await points.  The TradeManager is constructed with its        *)
(* default md_client=None, so no rolling window is built and only price    *)
(* rules (Custom entry, initial_stop_price, take_profit_rules[0],          *)
(* current_trailing_stop) can trigger; no portfolio filter is configured.  *)
(* The file holds one trade.  The audit trail is append-only and never     *)
(* read by the engine: the state keeps the number of entries the latest    *)
(* operation appended.  In the specification of the trade lifecycle        *)
(* (Spec) the circuit breaker is a nondeterministic can_execute().         *)
(*                                                                         *)
(* The CircuitBreaker class is specified on its own (SpecBreaker): one     *)
(* breaker object, its three methods called in any order, and a clock.     *)
(* ErrorHandler.execute_with_retry is specified step by step (SpecRetry):  *)
(* one action per attempt of the operation and per backoff sleep.          *)
(* The tick path with the broker circuit breaker it consults, the tick     *)
(* queue of TickHandler and faults at the points where the code handles    *)
(* exceptions is SpecResilience; SpecOutage is the same tick path and the  *)
(* broker sync while no broker call succeeds.  ErrorHandler.error_counts   *)
(* is written by execute_with_retry and read by get_error_stats only; it   *)
(* is kept in SpecRetry alone.                                             *)
(***************************************************************************)
EXTENDS Integers, Sequences, FiniteSets, TLC

\* ---------------------------------------------------------------- bounds
MaxOrders == 2
\* the clock of time.time() advances in steps of TimeStep seconds up to MaxTime
TimeStep == 30
MaxTime == 180
\* record_failure() is called while failure_count is below MaxFailures
MaxFailures == 6
\* execute_with_retry is entered while error_counts of its operation is at
\* most MaxErrors minus the attempts of one call
MaxErrors == 8
\* TickHandler.tick_queue holds at most MaxQueue ticks
MaxQueue == 2
\* ticks that arrive in one run of SpecTickOrder
MaxTicks == 4

\* tasks that start() creates and stop() calls that return in one run of
\* SpecTasks
MaxTasks == 3

MaxStops == 4

\* RollingWindow(30) of evaluate_trade_on_tick holds at most MaxWindow prices
MaxWindow == 4

\* ------------------------------------------------------- status values
\* config/status_enums.py plus the literals used in trade_manager.py /
\* services/validation.py ("Draft", "Cancelled", "Rejected")
Draft == "Draft"
Working == "Working"
EntryOrderSubmitted == "Entry Order Submitted"
ContingentOrderWorking == "Contingent Order Working"
ContingentOrderSubmitted == "Contingent Order Submitted"
Inactive == "Inactive"
Blank == "--"
Pending == "Pending"
Filled == "Filled"
Closed == "Closed"
Cancelled == "Cancelled"
Rejected == "Rejected"

terminal_order_states == {Cancelled, Rejected, Inactive}
terminal_trade_states == {Closed, Cancelled}

\* ------------------------------------------------------------ inputs
\* saved_trades.json holds the trade of one of these symbols; the other
\* symbol is then a symbol without a persisted trade
TradedSymbols == {"AAPL", "MSFT"}
Prices == {200, 210, 215, 220, 250}
FillPrices == {200, 220}
Quantities == {50}

\* Optional values: <<>> is Python's None / a missing key, <<v>> a value
None == <<>>
Some(v) == <<v>>
IsNone(o) == o = <<>>
Val(o) == o[1]

\* Rule configuration of the persisted trades; no operation changes these
\* fields of a record, so they are kept outside the state.
\*   AAPL: Long,  entry price >= 220, stop price <= 200, target price >= 250
\*   MSFT: Short, entry price <= 215, stop price >= 250, target price <= 200
Config ==
  [s \in TradedSymbols |->
     IF s = "AAPL"
       THEN [direction |-> "Long", entry_source |-> "Custom", entry_value |-> Some(220),
             initial_stop_price |-> Some(200),
             take_profit_value |-> Some(250), take_profit_condition |-> ">=",
             current_trailing_stop |-> None,
             calculated_quantity |-> 50]
       ELSE [direction |-> "Short", entry_source |-> "Custom", entry_value |-> Some(215),
             initial_stop_price |-> Some(250),
             take_profit_value |-> Some(200), take_profit_condition |-> "<=",
             current_trailing_stop |-> Some(250),
             calculated_quantity |-> 50]]

VARIABLES
  file,            \* saved_trades.json: symbol -> trade record
  trades,          \* TradeManager.trades (in memory): symbol -> trade record
  active_orders,   \* OrderExecutor.active_orders: order id -> tracked trade
  next_order_id,   \* next broker order id
  audit_trail,     \* TradeLifecycleLogger.audit_trail: the number of entries the
                   \* latest operation appended to this append-only list
  entry_fill,      \* history: per trade, the executed_price the latest
                   \* mark_trade_filled recorded (None before the first)
  last_tick,       \* history: the symbol the latest operation evaluated a tick
                   \* of, "" when the latest operation was not a tick evaluation
  e2e,             \* history: progress of the run along the end-to-end scenario
  breaker,         \* a CircuitBreaker object
  now,             \* time.time()
  returned,        \* what the latest method call on the breaker returned
  failures_since_success,  \* history: record_failure() calls since the latest
                           \* record_success() (since construction before the first)
  opened,          \* history: the breaker has been OPEN since construction
  retry,           \* the frame of the execute_with_retry call in progress (or
                   \* of the latest one), with the history of its attempts
  error_counts,    \* ErrorHandler.error_counts: operation name -> failures
  breaker_calls,   \* history: the methods the latest operation called on the
                   \* breaker, in order
  tick_queue,      \* TickHandler.tick_queue
  tick_loop,       \* TickHandler.process_tick_queue: "running" or "stopped"
  tick_raised,     \* history: the latest evaluate_trade_on_tick raised to its
                   \* caller
  put_tasks,       \* the tasks on_tick created that have not run yet, in the
                   \* order of the event loop
  evaluating,      \* the evaluate_trade_on_tick calls of process_tick_queue
                   \* that have started and not finished
  tick_history,    \* history: the ticks in arrival order, the arrival numbers
                   \* of the ticks in the order their evaluation started, and
                   \* per symbol the tick whose evaluation wrote last
  handlers,        \* the handlers connected to ib.orderStatusEvent
  delivered,       \* history: the latest event the broker delivered to
                   \* on_order_status (None before the first)
  routed,          \* history: what on_order_status did with that event
  fill_raised,     \* history: the processing of some delivered event raised
  evaluation,      \* the latest call of a rule evaluator: its arguments and
                   \* what it returned (None before the first)
  trailing,        \* the trailing stop of a filled trade: current_trailing_stop
                   \* in the trade file, and of the latest tick the candidate,
                   \* the value on the evaluated trade dict and the trigger
  _sync_task,      \* TradeManager._sync_task: None or the task start() created
  sync_tasks,      \* the state of every task start() has created
  stop_call,       \* the stop() call in progress, with the history of the
                   \* calls that returned or raised
  suspended        \* the evaluate_trade_on_tick call that has read its trade
                   \* and waits at an await (None when there is none): the
                   \* symbol, the price and the trade dict it holds

trade_vars == <<file, trades, active_orders, next_order_id, audit_trail, entry_fill, last_tick, e2e>>
breaker_vars == <<breaker, now, returned, failures_since_success, opened, breaker_calls>>
retry_vars == <<retry, error_counts>>
tick_order_vars == <<put_tasks, evaluating, tick_history>>
tick_vars == <<tick_queue, tick_loop, tick_raised, tick_order_vars>>
fill_vars == <<handlers, delivered, routed, fill_raised>>
evaluator_vars == <<evaluation, trailing>>
task_vars == <<_sync_task, sync_tasks, stop_call>>
race_vars == <<suspended>>
resilience_vars == <<breaker_vars, retry_vars, tick_vars, fill_vars, evaluator_vars, task_vars, race_vars>>
vars == <<trade_vars, resilience_vars>>

\* A trade record as first activated / saved: a draft is saved with
\* editing = true, activation clears the flag, and the TradeManager never
\* reads or writes it
NewTrade(os, ts) ==
  [order_status |-> os, trade_status |-> ts, editing |-> (os = Draft),
   filled_qty |-> None, executed_price |-> None,
   exit_price |-> None, exit_qty |-> None, realized_pnl |-> None]

InitialStatuses == {<<Working, Pending>>, <<Draft, Blank>>}

\* ------------------------------------------------------------ evaluators

\* _evaluate_price_condition that takes every trade for a Long trade
_evaluate_price_condition_LongOnly(direction, current_price, threshold_price) ==
  current_price >= threshold_price

\* EntryEvaluator._evaluate_price_condition
_evaluate_price_condition(direction, current_price, threshold_price) ==
  IF direction = "Long" THEN current_price >= threshold_price
  ELSE IF direction = "Short" THEN current_price <= threshold_price
  ELSE FALSE

\* EntryEvaluator._evaluate_rule_condition with rolling_window = None: the
\* indicator rules report insufficient data, unknown rules do not trigger
_evaluate_rule_condition(cfg, current_price) ==
  IF cfg.entry_source = "PRICE_ABOVE"
    THEN ~IsNone(cfg.entry_value) /\ current_price >= Val(cfg.entry_value)
  ELSE IF cfg.entry_source = "PRICE_BELOW"
    THEN ~IsNone(cfg.entry_value) /\ current_price < Val(cfg.entry_value)
  ELSE FALSE

\* EntryEvaluator.should_trigger_entry
should_trigger_entry(cfg, current_price) ==
  IF cfg.entry_source = "Custom" /\ ~IsNone(cfg.entry_value)
    THEN _evaluate_price_condition(cfg.direction, current_price, Val(cfg.entry_value))
  ELSE IF cfg.entry_source # "Custom"
    THEN _evaluate_rule_condition(cfg, current_price)
  ELSE FALSE

\* _determine_active_stop that prefers the static stop whenever it exists
_determine_active_stop_StaticFirst(direction, static_stop, dynamic_stop) ==
  IF ~IsNone(static_stop) THEN static_stop ELSE dynamic_stop

\* StopLossEvaluator._determine_active_stop
_determine_active_stop(direction, static_stop, dynamic_stop) ==
  IF ~IsNone(static_stop) /\ IsNone(dynamic_stop) THEN static_stop
  ELSE IF IsNone(static_stop) /\ ~IsNone(dynamic_stop) THEN dynamic_stop
  ELSE IF ~IsNone(static_stop) /\ ~IsNone(dynamic_stop)
    THEN IF direction = "Long"
           THEN Some(IF Val(static_stop) >= Val(dynamic_stop) THEN Val(static_stop) ELSE Val(dynamic_stop))
           ELSE Some(IF Val(static_stop) <= Val(dynamic_stop) THEN Val(static_stop) ELSE Val(dynamic_stop))
  ELSE None

\* StopLossEvaluator._evaluate_stop_trigger
_evaluate_stop_trigger(direction, current_price, active_stop) ==
  IF IsNone(active_stop) THEN FALSE
  ELSE IF direction = "Long" THEN current_price <= Val(active_stop)
  ELSE IF direction = "Short" THEN current_price >= Val(active_stop)
  ELSE FALSE

\* StopLossEvaluator.should_trigger_stop; without a rolling window
\* _calculate_dynamic_stop returns None
should_trigger_stop(cfg, current_price) ==
  _evaluate_stop_trigger(cfg.direction, current_price,
      _determine_active_stop(cfg.direction, cfg.initial_stop_price, None))

\* TakeProfitEvaluator.is_take_profit_active / should_trigger_take_profit
is_take_profit_active(cfg) == ~IsNone(cfg.take_profit_value)

should_trigger_take_profit(cfg, current_price) ==
  IF IsNone(cfg.take_profit_value) THEN FALSE
  ELSE IF cfg.direction = "Long"
    THEN \/ cfg.take_profit_condition = ">=" /\ current_price >= Val(cfg.take_profit_value)
         \/ cfg.take_profit_condition = ">" /\ current_price > Val(cfg.take_profit_value)
  ELSE IF cfg.direction = "Short"
    THEN \/ cfg.take_profit_condition = "<=" /\ current_price <= Val(cfg.take_profit_value)
         \/ cfg.take_profit_condition = "<" /\ current_price < Val(cfg.take_profit_value)
  ELSE FALSE

\* TrailingStopEvaluator.is_trailing_stop_active / should_trigger_trailing_stop
is_trailing_stop_active(cfg) == ~IsNone(cfg.current_trailing_stop)

should_trigger_trailing_stop(cfg, current_price) ==
  IF IsNone(cfg.current_trailing_stop) THEN FALSE
  ELSE IF cfg.direction = "Long" THEN current_price <= Val(cfg.current_trailing_stop)
  ELSE IF cfg.direction = "Short" THEN current_price >= Val(cfg.current_trailing_stop)
  ELSE FALSE

\* ------------------------------------------------------- order executor
\* Outcome of one call of the order executor by the TradeManager
\* (place_market_order / submit_exit_order):
\*   "ok"    an order result is returned and the order is tracked
\*   "none"  the executor caught a failure and returned None
\*   "raise" the call raised (the keyword arguments symbol=/qty=/side= of
\*           trade_manager.py:808-813 do not bind to
\*           order_executor.py:50, or any other error escaping the executor)
Outcomes == {"ok", "none", "raise"}


\* ErrorHandler(max_retries=3): attempts of execute_with_retry
max_retries == 3
MaxAttempts == max_retries + 1

\* The placement outcomes of the attempts of one execute_with_retry call:
\* `raised` attempts raise, the next one (if any is left) ends with `final`
RetryOutcomes(raised, final) ==
  [a \in 1 .. MaxAttempts |-> IF a <= raised THEN "raise" ELSE final]

\* active_orders[order.orderId] = {"trade_result": ..., "trade": trade}:
\* the tracked trade is the dict the TradeManager passed, so its
\* order_status is the one that dict has when the fill is processed
TrackOrders(orders, first_id, n, symbol, dict_order_status) ==
  [id \in (DOMAIN orders) \cup (first_id .. (first_id + n - 1)) |->
     IF id \in DOMAIN orders THEN orders[id]
     ELSE [symbol |-> symbol, order_status |-> dict_order_status]]

\* ------------------------------------------------------- trade manager

\* TradeManager._update_trade_in_file
_update_trade_in_file(f, symbol, updated_trade) ==
  IF symbol \in DOMAIN f THEN [f EXCEPT ![symbol] = updated_trade] ELSE f

\* TradeManager._save_trades: the file becomes the in-memory list
_save_trades(mem) == mem

\* the loop "for i, t in enumerate(self.trades): ... self.trades[i] = trade"
ReplaceInMemory(mem, symbol, trade) ==
  IF symbol \in DOMAIN mem THEN [mem EXCEPT ![symbol] = trade] ELSE mem

\* TradeManager._evaluate_entry_conditions run by execute_with_retry on the
\* same trade dict until an attempt does not raise or the attempts are used
\* up.  st = [trade, file, trades, placed, audit]; outs[a] is the outcome of
\* the order placement of attempt a.
RECURSIVE _evaluate_entry_attempts(_, _, _, _)
_evaluate_entry_attempts(symbol, st, outs, a) ==
  LET old_status == st.trade.order_status
      submitted == [st.trade EXCEPT !.order_status = EntryOrderSubmitted]
      file1 == _update_trade_in_file(st.file, symbol, submitted)
      mem1 == ReplaceInMemory(st.trades, symbol, submitted)
      audit1 == st.audit + 1
  IN  IF outs[a] = "ok"
        THEN [trade |-> submitted, file |-> _save_trades(mem1), trades |-> mem1,
              placed |-> st.placed + 1, audit |-> audit1 + 1]
      ELSE IF outs[a] = "none"
        THEN LET reverted == [submitted EXCEPT !.order_status = old_status]
                 mem2 == ReplaceInMemory(mem1, symbol, reverted)
             IN [trade |-> reverted, file |-> _save_trades(mem2), trades |-> mem2,
                 placed |-> st.placed, audit |-> audit1 + 1]
      ELSE LET st1 == [trade |-> submitted, file |-> file1, trades |-> mem1,
                       placed |-> st.placed, audit |-> audit1]
           IN IF a < MaxAttempts
                THEN _evaluate_entry_attempts(symbol, st1, outs, a + 1)
                ELSE st1

\* One exit of TradeManager._evaluate_child_orders: _execute_stop_loss,
\* _execute_take_profit or _execute_trailing_stop.
\* st = [order_status, placed, saved, aborted]
_execute_exit(st, triggered, out) ==
  IF ~triggered \/ st.aborted THEN st
  ELSE IF out = "ok"
    THEN [order_status |-> ContingentOrderSubmitted, placed |-> st.placed + 1,
          saved |-> TRUE, aborted |-> FALSE]
  ELSE IF out = "none" THEN st
  ELSE [st EXCEPT !.aborted = TRUE]

\* the exit conditions of TradeManager._evaluate_child_orders, in the order
\* of the code: stop loss, take profit, trailing stop
ExitTriggered(trade, cfg, price) ==
  LET exit_quantity == IF ~IsNone(trade.filled_qty) THEN Val(trade.filled_qty)
                       ELSE cfg.calculated_quantity
  IN << should_trigger_stop(cfg, price),
        is_take_profit_active(cfg) /\ should_trigger_take_profit(cfg, price)
          /\ exit_quantity > 0,
        is_trailing_stop_active(cfg) /\ should_trigger_trailing_stop(cfg, price) >>

\* TradeManager._evaluate_child_orders: the state after the first n exits
RECURSIVE _evaluate_child_exits(_, _, _, _, _)
_evaluate_child_exits(trade, cfg, price, outs, n) ==
  IF n = 0
    THEN [order_status |-> trade.order_status, placed |-> 0,
          saved |-> FALSE, aborted |-> FALSE]
  ELSE _execute_exit(_evaluate_child_exits(trade, cfg, price, outs, n - 1),
                     ExitTriggered(trade, cfg, price)[n], outs[n])

_evaluate_child_orders(trade, cfg, price, outs) ==
  _evaluate_child_exits(trade, cfg, price, outs, 3)

\* the i-th exit order of one evaluation is placed: its condition holds and
\* no earlier exit raised
ExitCalled(trade, cfg, price, outs, i) ==
  /\ ExitTriggered(trade, cfg, price)[i]
  /\ ~_evaluate_child_exits(trade, cfg, price, outs, i - 1).aborted

\* mark_trade_filled that does not record the fill price
mark_trade_filled_NoExecutedPrice(f, symbol, fill_price, filled_qty) ==
  IF symbol \notin DOMAIN f THEN f
  ELSE [f EXCEPT ![symbol] =
          [@ EXCEPT !.filled_qty = Some(filled_qty),
                    !.order_status = ContingentOrderWorking,
                    !.trade_status = Filled]]

\* TradeManager.mark_trade_filled on the persisted set
mark_trade_filled(f, symbol, fill_price, filled_qty) ==
  IF symbol \notin DOMAIN f THEN f
  ELSE _update_trade_in_file(f, symbol,
         [f[symbol] EXCEPT !.filled_qty = Some(filled_qty),
                           !.executed_price = Some(fill_price),
                           !.order_status = ContingentOrderWorking,
                           !.trade_status = Filled])

\* realized P&L of TradeManager.mark_trade_closed
RealizedPnl(direction, entry_price, exit_price, exit_qty) ==
  IF direction = "Long" THEN (exit_price - entry_price) * exit_qty
  ELSE (entry_price - exit_price) * exit_qty

\* TradeManager.mark_trade_closed on the persisted set
mark_trade_closed(f, symbol, exit_price, exit_qty) ==
  IF symbol \notin DOMAIN f THEN f
  ELSE LET trade == f[symbol]
           entry_price == IF IsNone(trade.executed_price) THEN 0 ELSE Val(trade.executed_price)
           closed == [trade EXCEPT !.order_status = Inactive,
                                   !.trade_status = Closed,
                                   !.exit_price = Some(exit_price),
                                   !.exit_qty = Some(exit_qty)]
       IN _update_trade_in_file(f, symbol,
            IF entry_price > 0
              THEN [closed EXCEPT !.realized_pnl =
                      Some(RealizedPnl(Config[symbol].direction, entry_price, exit_price, exit_qty))]
              ELSE closed)

\* audit entries written by mark_trade_filled / mark_trade_closed: the
\* order-status and the trade-status transition
FillAuditEntries(f, symbol) == IF symbol \in DOMAIN f THEN 2 ELSE 0

\* evaluate_trade_on_tick without its terminal-state guard
SkipsEvaluation_NoTerminalGuard(f, symbol) == symbol \notin DOMAIN f

\* evaluate_trade_on_tick returns before any evaluation
SkipsEvaluation(f, symbol) ==
  \/ symbol \notin DOMAIN f
  \/ f[symbol].trade_status \in terminal_trade_states
  \/ f[symbol].order_status \in terminal_order_states

\* -------------------------------------------- end-to-end scenario (AAPL)
\* evaluate(215), evaluate(220), entry fill (220, 50), evaluate(210),
\* evaluate(200), exit fill (200, 50); every order placement succeeds
E2EScript ==
  << [kind |-> "tick", symbol |-> "AAPL", price |-> 215, qty |-> 0, clean |-> TRUE],
     [kind |-> "tick", symbol |-> "AAPL", price |-> 220, qty |-> 0, clean |-> TRUE],
     [kind |-> "mark_filled", symbol |-> "AAPL", price |-> 220, qty |-> 50, clean |-> TRUE],
     [kind |-> "tick", symbol |-> "AAPL", price |-> 210, qty |-> 0, clean |-> TRUE],
     [kind |-> "tick", symbol |-> "AAPL", price |-> 200, qty |-> 0, clean |-> TRUE],
     [kind |-> "mark_closed", symbol |-> "AAPL", price |-> 200, qty |-> 50, clean |-> TRUE] >>

E2EOff == 0 - 1

E2ENext(op) ==
  IF e2e >= 0 /\ e2e < Len(E2EScript) /\ op = E2EScript[e2e + 1] THEN e2e + 1 ELSE E2EOff

Tick(symbol, price, clean) ==
  [kind |-> "tick", symbol |-> symbol, price |-> price, qty |-> 0, clean |-> clean]

\* -------------------------------------------------------- circuit breaker

\* CircuitBreaker.__init__
CircuitBreaker(failure_threshold, recovery_timeout) ==
  [failure_threshold |-> failure_threshold, recovery_timeout |-> recovery_timeout,
   failure_count |-> 0, last_failure_time |-> None, state |-> "CLOSED"]

\* The two breakers a TradeManager constructs
broker_circuit_breaker == CircuitBreaker(5, 60)
market_data_circuit_breaker == CircuitBreaker(3, 30)

\* CircuitBreaker.record_failure at time.time() = time
record_failure_StrictThreshold(cb, time) ==
  LET count == cb.failure_count + 1
  IN [cb EXCEPT !.failure_count = count,
                !.last_failure_time = Some(time),
                !.state = IF count > cb.failure_threshold THEN "OPEN" ELSE @]

record_failure(cb, time) ==
  LET count == cb.failure_count + 1
  IN [cb EXCEPT !.failure_count = count,
                !.last_failure_time = Some(time),
                !.state = IF count >= cb.failure_threshold THEN "OPEN" ELSE @]

\* CircuitBreaker.record_success
record_success_KeepsCount(cb) ==
  [cb EXCEPT !.state = IF @ = "HALF_OPEN" THEN "CLOSED" ELSE @]

record_success(cb) ==
  [cb EXCEPT !.failure_count = 0,
             !.state = IF @ = "HALF_OPEN" THEN "CLOSED" ELSE @]

\* `self.last_failure_time and time.time() - self.last_failure_time >
\* self.recovery_timeout`: None and 0 are falsy
RecoveryTimeoutPassed(cb, time) ==
  /\ ~IsNone(cb.last_failure_time)
  /\ Val(cb.last_failure_time) # 0
  /\ time - Val(cb.last_failure_time) > cb.recovery_timeout

\* CircuitBreaker.can_execute at time.time() = time: the value returned and
\* the breaker after the call
can_execute(cb, time) ==
  IF cb.state = "CLOSED" THEN [returned |-> TRUE, breaker |-> cb]
  ELSE IF cb.state = "OPEN"
    THEN IF RecoveryTimeoutPassed(cb, time)
           THEN [returned |-> TRUE, breaker |-> [cb EXCEPT !.state = "HALF_OPEN"]]
         ELSE [returned |-> FALSE, breaker |-> cb]
  ELSE [returned |-> TRUE, breaker |-> cb]

\* a breaker right after construction; the clock shows a positive time
BreakerInit(cb) ==
  /\ breaker = cb
  /\ now = TimeStep
  /\ returned = None
  /\ failures_since_success = 0
  /\ opened = FALSE
  /\ breaker_calls = << >>

\* one method call on a breaker with its history
\* st = [breaker, returned, failures_since_success, opened]
Call(st, method, time) ==
  IF method = "record_failure"
    THEN LET cb == record_failure(st.breaker, time)
         IN [breaker |-> cb, returned |-> None,
             failures_since_success |-> st.failures_since_success + 1,
             opened |-> (st.opened \/ cb.state = "OPEN")]
  ELSE IF method = "record_success"
    THEN [st EXCEPT !.breaker = record_success(@), !.returned = None,
                    !.failures_since_success = 0]
  ELSE LET r == can_execute(st.breaker, time)
       IN [st EXCEPT !.breaker = r.breaker, !.returned = Some(r.returned)]

RECURSIVE Calls(_, _, _)
Calls(st, methods, time) ==
  IF methods = << >> THEN st
  ELSE Calls(Call(st, Head(methods), time), Tail(methods), time)

\* the operation in progress calls `methods` on the breaker
BreakerCalls(methods) ==
  LET st == Calls([breaker |-> breaker, returned |-> returned,
                   failures_since_success |-> failures_since_success,
                   opened |-> opened], methods, now)
  IN /\ breaker' = st.breaker
     /\ returned' = st.returned
     /\ failures_since_success' = st.failures_since_success
     /\ opened' = st.opened
     /\ breaker_calls' = methods

\* ---------------------------------------------------------- error handler

\* ErrorHandler(max_retries=3, retry_delay=1.0)
retry_delay == 1

\* the operations the TradeManager runs under execute_with_retry
OperationNames == {"sync_positions_with_broker", "evaluate_trade_AAPL"}

\* what an operation returns when it does not raise: None
\* (_evaluate_trade_internal) or a value (get_positions)
OperationResults == {None, Some("positions")}

\* one attempt of the operation: it raised an Exception, or returned value
AttemptOutcomes ==
  {[raised |-> TRUE, value |-> None]}
    \cup [raised : {FALSE}, value : OperationResults]

\* `await asyncio.sleep(self.retry_delay * (attempt + 1))`
backoff_Constant(attempt) == retry_delay

backoff(attempt) == retry_delay * (attempt + 1)

\* how execute_with_retry ends after the loop: `return None`
AfterLoop_Raise == [kind |-> "raise", value |-> None]

AfterLoop == [kind |-> "return", value |-> None]

\* the frame of a call: pc is "try" before an attempt, "sleep" before a
\* backoff sleep, "done" when the call has ended with `result`; `attempts`
\* and `sleeps` are the history of the attempts made and the sleeps taken
RetryFrame(pc, operation_name) ==
  [pc |-> pc, operation_name |-> operation_name, attempt |-> 0,
   attempts |-> << >>, sleeps |-> << >>, result |-> None]

\* `for attempt in range(self.max_retries + 1)`: the next iteration, or
\* the end of the loop
NextIteration(fr) ==
  IF fr.attempt + 1 < MaxAttempts
    THEN [fr EXCEPT !.pc = "try", !.attempt = @ + 1]
  ELSE [fr EXCEPT !.pc = "done", !.result = Some(AfterLoop)]

\* ErrorHandler.__init__
ErrorHandlerInit ==
  /\ retry = RetryFrame("idle", "")
  /\ error_counts = [n \in OperationNames |-> 0]

\* ----------------------------------------------------------- tick handler

\* a tick price that is not a number (float("nan")), kept apart from
\* every price
NaN == 0 - 1

\* ticks put on the queue: per symbol a price that triggers the entry of its
\* trade, and a price that is not a number
QueuedTicks ==
  {[symbol |-> "AAPL", price |-> 220], [symbol |-> "MSFT", price |-> 210],
   [symbol |-> "AAPL", price |-> NaN]}

\* The points of evaluate_trade_on_tick at which an Exception is raised:
\* reading the trade file, the body of the method outside every inner
\* handler, the market-data call, an evaluator, a write of the trade file.
\* (The outcomes of the broker call are drawn in EvaluateTradeInternal.)
TickFaults == {"none", "fresh_read", "body", "market_data", "evaluator", "persistence"}

\* the except clause that catches an Exception raised at `point`, "caller"
\* when none does
CaughtBy_NoOuterHandler(point) ==
  CASE point = "fresh_read" -> "_get_fresh_trade_config"
    [] point = "market_data" -> "evaluate_trade_on_tick: historical data"
    [] point = "evaluator" -> "execute_with_retry"
    [] point = "persistence" -> "_update_trade_in_file, _save_trades"
    [] OTHER -> "caller"

CaughtBy(point) ==
  CASE point = "fresh_read" -> "_get_fresh_trade_config"
    [] point = "market_data" -> "evaluate_trade_on_tick: historical data"
    [] point = "evaluator" -> "execute_with_retry"
    [] point = "persistence" -> "_update_trade_in_file, _save_trades"
    [] point = "body" -> "evaluate_trade_on_tick"
    [] OTHER -> "caller"

\* process_tick_queue after the evaluation of a tick: an Exception of
\* evaluate_trade_on_tick is caught and logged, and the loop continues
LoopAfter(raised) == "running"

\* the event loop runs the tasks that are ready in the order they were
\* created, whatever that order
ReadyTask_Last(tasks) == Len(tasks)

\* asyncio.create_task(self.tick_queue.put(tick)): the task the event loop
\* runs next is the one created first; the queue has no maxsize, so a put
\* never waits
ReadyTask(tasks) == 1

\* a consumer that starts every evaluation as a task of its own
TakesNextTick_Spawning(running) == TRUE

\* "await self.trade_manager.evaluate_trade_on_tick(...)": the loop gets
\* the next tick when no evaluation of its own is running
TakesNextTick(running) == running = << >>

\* a sequence without its i-th element
RemoveAt(seq, i) == SubSeq(seq, 1, i - 1) \o SubSeq(seq, i + 1, Len(seq))

\* TickHandler.__init__
TickHandlerInit ==
  /\ tick_queue = << >>
  /\ tick_loop = "running"
  /\ tick_raised = FALSE
  /\ put_tasks = << >>
  /\ evaluating = << >>
  /\ tick_history = [arrivals |-> << >>, started |-> << >>,
                     written |-> [symbol \in TradedSymbols |-> 0]]

\* ------------------------------------------------ evaluator calls

\* trade.get("direction", "Long")
Directions == {"Long", "Short"}

\* TrailingStopEvaluator._should_update_stop
_should_update_stop(direction, current_stop, new_stop) ==
  IF IsNone(current_stop) THEN TRUE
  ELSE IF direction = "Long" THEN new_stop > Val(current_stop)
  ELSE IF direction = "Short" THEN new_stop < Val(current_stop)
  ELSE FALSE

\* TrailingStopEvaluator.should_update_trailing_stop; new_stop is what
\* _calculate_trailing_stop derives from the rolling window, None when the
\* window is too short or the calculation fails
should_update_trailing_stop(direction, current_stop, new_stop) ==
  ~IsNone(new_stop) /\ _should_update_stop(direction, current_stop, Val(new_stop))

\* candidates of _calculate_trailing_stop and the tick prices they are
\* evaluated at
TrailingCandidates == {None, Some(95), Some(98), Some(100), Some(103), Some(105)}
TrailingTickPrices == {97, 99, 101, 104, 106}

\* current_trailing_stop of the trade in the file when it is filled
StoredTrailingStops == {None, Some(100), Some(102)}

\* a filled trade of which no tick has been evaluated yet
FilledTrade(direction, stored) ==
  [direction |-> direction, stored |-> stored, candidate |-> None,
   on_dict |-> stored, triggered |-> FALSE]

\* the evaluators are constructed without state
EvaluatorInit ==
  /\ evaluation = None
  /\ trailing = FilledTrade("Long", None)

\* initial_stop_price of a trade and the dynamic stop that
\* _calculate_dynamic_stop derives from the rolling window: None without a
\* trailing rule or with too short a window
StopLevels == {None, Some(95), Some(98), Some(102), Some(105)}
StopTickPrices == {94, 97, 100, 103, 106}

\* trade["active_stop"]["type"] as should_trigger_stop sets it, and the
\* default of stop_details["stop_type"] when no stop is active
active_stop_type(active_stop, dynamic_stop) ==
  IF active_stop # None /\ dynamic_stop # None THEN "dynamic" ELSE "static"

\* StopLossEvaluator.should_trigger_stop as a call record; the dict stored
\* in trade["active_stop"] has one price
StopEvaluation(direction, static_stop, dynamic_stop, current_price) ==
  LET active_stop == _determine_active_stop(direction, static_stop, dynamic_stop)
  IN [evaluator |-> "should_trigger_stop", direction |-> direction,
      static_stop |-> static_stop, dynamic_stop |-> dynamic_stop,
      current_price |-> current_price, active_stop |-> active_stop,
      stop_type |-> active_stop_type(active_stop, dynamic_stop),
      triggered |-> _evaluate_stop_trigger(direction, current_price, active_stop)]

\* entry_rules[0]: primary_source and value
EntrySources == {"Custom", "PRICE_ABOVE", "PRICE_BELOW", "Price"}
EntryValues == {None, Some(150)}
EntryTickPrices == {148, 150, 155}

\* EntryEvaluator.should_trigger_entry as a call record
EntryEvaluation(direction, entry_source, entry_value, current_price) ==
  [evaluator |-> "should_trigger_entry", direction |-> direction,
   entry_source |-> entry_source, entry_value |-> entry_value,
   current_price |-> current_price,
   triggered |-> should_trigger_entry([direction |-> direction,
                                       entry_source |-> entry_source,
                                       entry_value |-> entry_value], current_price)]

\* take_profit_rules: the values of the rules, primary first, and the
\* condition of the first rule
TakeProfitRules == {<<160>>, <<160, 165>>, <<165, 160>>}
TakeProfitConditions == {">=", "<="}
TakeProfitTickPrices == {158, 160, 163, 166}

\* TakeProfitEvaluator.should_trigger_take_profit and
\* should_trigger_partial_exit as a call record: the first rule alone is
\* evaluated, the details hold that rule and no "triggered_targets", so
\* details.get("triggered_targets", []) is empty and the partial exit is
\* never triggered
TakeProfitEvaluation(direction, rules, condition, current_price) ==
  LET triggered == should_trigger_take_profit(
                     [direction |-> direction, take_profit_value |-> Some(rules[1]),
                      take_profit_condition |-> condition], current_price)
  IN [evaluator |-> "should_trigger_take_profit", direction |-> direction,
      take_profit_rules |-> rules, condition |-> condition,
      current_price |-> current_price, triggered |-> triggered,
      rule |-> rules[1], triggered_targets |-> << >>, partial_exit |-> FALSE]

\* -------------------------------------------------- fill consumer

\* on_order_status that takes every tracked order for an entry order
Routing_EntryOnly(orders, id, status) ==
  IF id \notin DOMAIN orders THEN "dropped"
  ELSE IF status \notin {"Filled", "Cancelled"} THEN "ignored"
  ELSE "mark_trade_filled"

\* OrderExecutor.on_order_status: what becomes of an event of order `id`
\*   "dropped"  no tracking entry: logged, return
\*   "ignored"  tracked, but neither Filled nor Cancelled
\*   otherwise the TradeManager method that is scheduled, chosen by the
\*   order_status the tracked trade dict has now
Routing(orders, id, status) ==
  IF id \notin DOMAIN orders THEN "dropped"
  ELSE IF status \notin {"Filled", "Cancelled"} THEN "ignored"
  ELSE IF orders[id].order_status = ContingentOrderSubmitted THEN "mark_trade_closed"
  ELSE "mark_trade_filled"

\* "del self.active_orders[order.orderId]"
Untrack(orders, id) == [i \in (DOMAIN orders) \ {id} |-> orders[i]]

\* the points at which the processing of a tracked Filled event raises:
\*   "format"  the log line before the try block (avgFillPrice that
\*             cannot be formatted)
\*   "routing" inside the try block, before a call is scheduled
\*   "task"    inside the scheduled mark_trade_filled / mark_trade_closed,
\*             at its log line after the audit entries
FillFaults == {"none", "format", "routing", "task"}

\* an event handler that is disconnected once it has raised
HandlersAfter_Disconnect(connected, raised) ==
  IF raised THEN connected \ {"on_order_status"} ELSE connected

\* the handlers of ib.orderStatusEvent after on_order_status ran: __init__
\* connects it and nothing disconnects it
HandlersAfter(connected, raised) == connected

\* OrderExecutor.__init__
OrderExecutorInit ==
  /\ handlers = {"on_order_status"}
  /\ delivered = None
  /\ routed = ""
  /\ fill_raised = FALSE

\* ------------------------------------------------------------- actions

TradeInit ==
  /\ \E symbol \in TradedSymbols, st \in InitialStatuses :
       /\ file = (symbol :> NewTrade(st[1], st[2]))
       /\ trades = file
       /\ e2e = IF symbol = "AAPL" /\ st = <<Working, Pending>> THEN 0 ELSE E2EOff
  /\ entry_fill = [s \in DOMAIN file |-> None]
  /\ last_tick = ""
  /\ active_orders = << >>
  /\ next_order_id = 1
  /\ audit_trail = 0

\* ------------------------------------------- indicator based entry rules

\* numbers of the indicators are fractions <<numerator, denominator>> with a
\* positive denominator
GreaterThan(a, b) == a[1] * b[2] > b[1] * a[2]

RECURSIVE SumSeq(_)
SumSeq(prices) == IF prices = << >> THEN 0 ELSE Head(prices) + SumSeq(Tail(prices))

\* what an indicator function gives: a value, or ValueError raised
ValueError == [error |-> TRUE, value |-> <<0, 1>>]
Value(v) == [error |-> FALSE, value |-> v]

\* the loop of calculate_ema over prices[length:]
RECURSIVE EmaFrom(_, _, _, _)
EmaFrom(prices, length, i, ema) ==
  IF i > Len(prices) THEN ema
  ELSE EmaFrom(prices, length, i + 1,
               <<2 * prices[i] * ema[2] + (length - 1) * ema[1], (length + 1) * ema[2]>>)

\* indicators.calculate_ema
calculate_ema(prices, length) ==
  IF Len(prices) < length THEN ValueError
  ELSE Value(EmaFrom(prices, length, length + 1,
                     <<SumSeq(SubSeq(prices, 1, length)), length>>))

\* calculate_sma without the check of the number of prices
calculate_sma_Unchecked(prices, length) ==
  Value(<<SumSeq(prices), length>>)

\* indicators.calculate_sma
calculate_sma(prices, length) ==
  IF Len(prices) < length THEN ValueError
  ELSE Value(<<SumSeq(SubSeq(prices, Len(prices) - length + 1, Len(prices))), length>>)

\* indicators.get_moving_average_value / calculate_moving_average
get_moving_average_value(prices, ma_config) ==
  IF ma_config.type = "sma" THEN calculate_sma(prices, ma_config.length)
  ELSE IF ma_config.type = "ema" THEN calculate_ema(prices, ma_config.length)
  ELSE ValueError

Signal(fast_ema, slow_ema) == IF GreaterThan(fast_ema, slow_ema) THEN "bullish" ELSE "bearish"

\* indicators.calculate_ema_crossover
calculate_ema_crossover(prices, fast_length, slow_length) ==
  LET longest == IF fast_length > slow_length THEN fast_length ELSE slow_length
      prev_prices == SubSeq(prices, 1, Len(prices) - 1)
      current_signal == Signal(calculate_ema(prices, fast_length).value,
                               calculate_ema(prices, slow_length).value)
      prev_signal == Signal(calculate_ema(prev_prices, fast_length).value,
                            calculate_ema(prev_prices, slow_length).value)
  IN IF Len(prices) < longest THEN [error |-> TRUE, crossover |-> FALSE, signal |-> ""]
     ELSE [error |-> FALSE,
           crossover |-> (Len(prices) >= longest + 1 /\ current_signal # prev_signal),
           signal |-> current_signal]

\* EntryEvaluator._evaluate_ema_crossover: ValueError is caught
_evaluate_ema_crossover(cfg, rolling_window) ==
  IF IsNone(rolling_window) \/ Len(Val(rolling_window)) < 2 THEN FALSE
  ELSE LET crossover_data == calculate_ema_crossover(Val(rolling_window), cfg.ema_fast, cfg.ema_slow)
       IN ~crossover_data.error /\ crossover_data.crossover
            /\ crossover_data.signal = cfg.ema_signal

\* EntryEvaluator._evaluate_moving_average_above: ValueError is caught
_evaluate_moving_average_above(cfg, current_price, rolling_window) ==
  IF IsNone(rolling_window) \/ Len(Val(rolling_window)) < 1 THEN FALSE
  ELSE LET ma_value == get_moving_average_value(Val(rolling_window), cfg.ma_config)
       IN ~ma_value.error /\ GreaterThan(<<current_price, 1>>, ma_value.value)

\* EntryEvaluator._evaluate_moving_average_below: ValueError is caught
_evaluate_moving_average_below(cfg, current_price, rolling_window) ==
  IF IsNone(rolling_window) \/ Len(Val(rolling_window)) < 1 THEN FALSE
  ELSE LET ma_value == get_moving_average_value(Val(rolling_window), cfg.ma_config)
       IN ~ma_value.error /\ GreaterThan(ma_value.value, <<current_price, 1>>)

\* the indicator rules of EntryEvaluator._evaluate_rule_condition
IndicatorRules == {"EMA_CROSSOVER", "MOVING_AVERAGE_ABOVE", "MOVING_AVERAGE_BELOW"}

_evaluate_indicator_rule(cfg, current_price, rolling_window) ==
  IF cfg.entry_source = "EMA_CROSSOVER" THEN _evaluate_ema_crossover(cfg, rolling_window)
  ELSE IF cfg.entry_source = "MOVING_AVERAGE_ABOVE"
    THEN _evaluate_moving_average_above(cfg, current_price, rolling_window)
  ELSE IF cfg.entry_source = "MOVING_AVERAGE_BELOW"
    THEN _evaluate_moving_average_below(cfg, current_price, rolling_window)
  ELSE FALSE

\* the trade of an indicator rule: ema_fast, ema_slow, ema_signal and
\* ma_config of the trade, with lookbacks the window of MaxWindow prices
\* can hold
IndicatorConfig(rule, ma_type) ==
  [entry_source |-> rule, ema_fast |-> 1, ema_slow |-> 2, ema_signal |-> "bullish",
   ma_config |-> [type |-> ma_type, length |-> 3]]

\* the number of prices the indicator of the rule needs
Lookback(cfg) ==
  IF cfg.entry_source = "EMA_CROSSOVER"
    THEN (IF cfg.ema_fast > cfg.ema_slow THEN cfg.ema_fast ELSE cfg.ema_slow)
  ELSE cfg.ma_config.length

\* close prices of the bars and prices of the ticks
IndicatorPrices == {10, 12, 16}

\* RollingWindow.append on deque(maxlen = length)
WindowAppend(window, new_value) ==
  IF Len(window) < MaxWindow THEN Append(window, new_value)
  ELSE Append(Tail(window), new_value)

\* ------------------------------------------------- the portfolio gate

\* a limit that portfolio_data does not have is float('inf')
Exceeds(x, limit) == ~IsNone(limit) /\ x > Val(limit)

\* trade.get(key, 0)
OrZero(o) == IF IsNone(o) THEN 0 ELSE Val(o)

Abs(x) == IF x < 0 THEN 0 - x ELSE x

\* TradeManager._get_portfolio_data: mock data, with the current_price key
\* of the trade
_get_portfolio_data(trade) ==
  [available_buying_power |-> 100000, portfolio_value |-> 100000,
   current_price |-> OrZero(trade.current_price), current_portfolio_loss |-> 0,
   max_loss_per_trade |-> None, max_portfolio_loss |-> None,
   max_position_size |-> None, max_concentration |-> 1, margin_requirement |-> 1,
   position |-> 0]

\* PortfolioEvaluator._calculate_required_buying_power, from the quantity
\* key of the trade
_calculate_required_buying_power(trade, portfolio_data) ==
  OrZero(trade.quantity) * portfolio_data.current_price * portfolio_data.margin_requirement

\* PortfolioEvaluator._calculate_potential_loss for a trade with a stop
_calculate_potential_loss(trade, portfolio_data) ==
  Abs(OrZero(trade.quantity) *
      (IF trade.direction = "Long"
         THEN portfolio_data.current_price - Val(trade.initial_stop_price)
       ELSE Val(trade.initial_stop_price) - portfolio_data.current_price))

\* PortfolioEvaluator._evaluate_basic_filters
_evaluate_basic_filters(trade, portfolio_data) ==
  ~(_calculate_required_buying_power(trade, portfolio_data)
      > portfolio_data.available_buying_power)

\* PortfolioEvaluator._evaluate_risk_conditions
_evaluate_risk_conditions(trade, portfolio_data) ==
  /\ ~Exceeds(_calculate_potential_loss(trade, portfolio_data),
              portfolio_data.max_loss_per_trade)
  /\ ~Exceeds(portfolio_data.current_portfolio_loss
                + _calculate_potential_loss(trade, portfolio_data),
              portfolio_data.max_portfolio_loss)

\* PortfolioEvaluator._evaluate_position_limits; the concentration
\* trade_value / portfolio_value > max_concentration without the division
_evaluate_position_limits(trade, portfolio_data) ==
  /\ ~Exceeds(Abs(portfolio_data.position + OrZero(trade.quantity)),
              portfolio_data.max_position_size)
  /\ ~(OrZero(trade.quantity) * portfolio_data.current_price
         > portfolio_data.max_concentration * portfolio_data.portfolio_value)

\* PortfolioEvaluator.should_allow_trade
should_allow_trade(trade, portfolio_data) ==
  /\ _evaluate_basic_filters(trade, portfolio_data)
  /\ _evaluate_risk_conditions(trade, portfolio_data)
  /\ _evaluate_position_limits(trade, portfolio_data)

\* PortfolioEvaluator.is_portfolio_filter_active
is_portfolio_filter_active(trade) ==
  ~IsNone(trade.portfolio_filters) \/ ~IsNone(trade.risk_conditions)

\* the portfolio check of _evaluate_entry_conditions lets the entry
\* evaluation go on
PassesPortfolioCheck(trade) ==
  is_portfolio_filter_active(trade)
    => should_allow_trade(trade, _get_portfolio_data(trade))

\* the keys of the AAPL trade that the portfolio gate reads
GatedTrade(portfolio_filters, quantity, current_price) ==
  [direction |-> Config["AAPL"].direction,
   initial_stop_price |-> Config["AAPL"].initial_stop_price,
   portfolio_filters |-> portfolio_filters, risk_conditions |-> None,
   quantity |-> quantity, current_price |-> current_price]

GateFilters == {None, Some("configured")}
GateQuantities == {None, Some(50), Some(2000)}
GateCurrentPrices == {None, Some(100)}

\* ------------------------------------------------ the background sync task

\* the states of an asyncio task that runs sync_with_broker(): created and
\* not run yet, suspended at an await, asked to cancel, ended by returning,
\* ended by the cancellation
TaskStates == {"pending", "suspended", "cancelling", "finished", "cancelled"}

\* the task has not ended
Running(state) == state \in {"pending", "suspended", "cancelling"}

\* Task.cancel(): a request to a task that has not ended, nothing otherwise
cancel(state) == IF Running(state) THEN "cancelling" ELSE state

\* what `await self._sync_task` gives stop() once the task has ended:
\* sync_with_broker returns None, or the cancellation is raised
Awaited(state) == IF state = "cancelled" THEN "CancelledError" ELSE "None"

\* the except clause of stop()
Swallowed_Nothing(outcome) == outcome = "None"

Swallowed(outcome) == outcome \in {"None", "CancelledError"}

\* TradeManager.__init__: no task, and no stop() has been called
BackgroundTaskInit ==
  /\ _sync_task = None
  /\ sync_tasks = << >>
  /\ stop_call = [pc |-> "idle", awaited |-> None, returned |-> 0, raised |-> FALSE,
                  stopped |-> FALSE]
  /\ suspended = None


\* TradeManager.__init__
Init ==
  /\ TradeInit
  /\ BreakerInit(broker_circuit_breaker)
  /\ ErrorHandlerInit
  /\ TickHandlerInit
  /\ OrderExecutorInit
  /\ EvaluatorInit
  /\ BackgroundTaskInit

\* history: mark_trade_filled recorded fill_price for the trade of symbol
RecordEntryFill(h, symbol, fill_price) ==
  IF symbol \in DOMAIN h THEN [h EXCEPT ![symbol] = Some(fill_price)] ELSE h

\* _evaluate_trade_internal evaluates the child orders of the trade it was
\* given (and _evaluate_entry_conditions returns at once)
EvaluatesChildOrders_AnyStatus(trade) == TRUE

EvaluatesChildOrders(trade) == trade.trade_status = Filled

\* evaluate_trade_on_tick returns before any evaluation: no trade, a
\* terminal trade or an open circuit breaker
NoEvaluation(symbol, price, clean) ==
  /\ e2e' = E2ENext(Tick(symbol, price, clean))
  /\ UNCHANGED <<file, trades, active_orders, next_order_id, entry_fill>>
  /\ audit_trail' = 0

\* execute_with_retry(f"evaluate_trade_{symbol}", self._evaluate_trade_internal,
\* trade, price, ...) on the trade dict `trade` that the tick read from the
\* file; the writes of the trade file succeed (written) or all fail and are
\* logged
EvaluateTradeCopy(symbol, trade, price, written) ==
  IF ~EvaluatesChildOrders(trade)
    THEN IF should_trigger_entry(Config[symbol], price)
           THEN \E raised \in 0 .. MaxAttempts, final \in {"ok", "none"} :
                  LET outs == RetryOutcomes(raised, final)
                      r == _evaluate_entry_attempts(symbol,
                             [trade |-> trade, file |-> file, trades |-> trades,
                              placed |-> 0, audit |-> 0], outs, 1)
                  IN /\ next_order_id + r.placed - 1 <= MaxOrders
                     /\ file' = IF written THEN r.file ELSE file
                     /\ trades' = r.trades
                     /\ active_orders' = TrackOrders(active_orders, next_order_id, r.placed,
                                                     symbol, r.trade.order_status)
                     /\ next_order_id' = next_order_id + r.placed
                     /\ audit_trail' = r.audit
                     /\ UNCHANGED entry_fill
                     /\ e2e' = E2ENext(Tick(symbol, price, outs[1] = "ok"))
         ELSE NoEvaluation(symbol, price, TRUE)
  ELSE \E outs \in [1 .. 3 -> Outcomes] :
         LET r == _evaluate_child_orders(trade, Config[symbol], price, outs)
         IN /\ \A i \in 1 .. 3 :
                 outs[i] # "ok" => ExitCalled(trade, Config[symbol], price, outs, i)
            /\ next_order_id + r.placed - 1 <= MaxOrders
            /\ file' = IF r.saved /\ written THEN _save_trades(trades) ELSE file
            /\ active_orders' = TrackOrders(active_orders, next_order_id, r.placed,
                                            symbol, r.order_status)
            /\ next_order_id' = next_order_id + r.placed
            /\ e2e' = E2ENext(Tick(symbol, price, \A i \in 1 .. 3 : outs[i] = "ok"))
            /\ audit_trail' = 0
            /\ UNCHANGED <<trades, entry_fill>>

\* the evaluation of a tick that nothing interrupted since it read its
\* trade from the file
EvaluateTradeInternal(symbol, price, written) ==
  EvaluateTradeCopy(symbol, file[symbol], price, written)

\* TradeManager.evaluate_trade_on_tick, with the answer of the circuit
\* breaker left open
EvaluateTradeOnTick(symbol, price) ==
  /\ UNCHANGED resilience_vars
  /\ last_tick' = symbol
  /\ IF SkipsEvaluation(file, symbol)
       THEN NoEvaluation(symbol, price, TRUE)
     ELSE \E executable \in BOOLEAN :
       IF ~executable
         THEN NoEvaluation(symbol, price, FALSE)
       ELSE EvaluateTradeInternal(symbol, price, TRUE)

\* TradeManager.mark_trade_filled
MarkTradeFilled(symbol, fill_price, filled_qty) ==
  /\ UNCHANGED resilience_vars
  /\ file' = mark_trade_filled(file, symbol, fill_price, filled_qty)
  /\ audit_trail' = FillAuditEntries(file, symbol)
  /\ entry_fill' = RecordEntryFill(entry_fill, symbol, fill_price)
  /\ e2e' = E2ENext([kind |-> "mark_filled", symbol |-> symbol, price |-> fill_price,
                     qty |-> filled_qty, clean |-> TRUE])
  /\ last_tick' = ""
  /\ UNCHANGED <<trades, active_orders, next_order_id>>

\* TradeManager.mark_trade_closed
MarkTradeClosed(symbol, exit_price, exit_qty) ==
  /\ UNCHANGED resilience_vars
  /\ file' = mark_trade_closed(file, symbol, exit_price, exit_qty)
  /\ audit_trail' = FillAuditEntries(file, symbol)
  /\ UNCHANGED entry_fill
  /\ e2e' = E2ENext([kind |-> "mark_closed", symbol |-> symbol, price |-> exit_price,
                     qty |-> exit_qty, clean |-> TRUE])
  /\ last_tick' = ""
  /\ UNCHANGED <<trades, active_orders, next_order_id>>

\* OrderExecutor.on_order_status for a broker event of order `id`, with
\* the call it schedules
HandleOrderStatus(id, status, filled, avgFillPrice) ==
  /\ e2e' = E2EOff
  /\ last_tick' = ""
  /\ IF Routing(active_orders, id, status) \in {"dropped", "ignored"}
       THEN /\ audit_trail' = 0
            /\ UNCHANGED <<file, trades, active_orders, next_order_id, entry_fill>>
     ELSE LET trade == active_orders[id]
              closes == Routing(active_orders, id, status) = "mark_trade_closed"
          IN /\ file' = IF closes
                          THEN mark_trade_closed(file, trade.symbol, avgFillPrice, filled)
                          ELSE mark_trade_filled(file, trade.symbol, avgFillPrice, filled)
             /\ entry_fill' = IF closes THEN entry_fill
                               ELSE RecordEntryFill(entry_fill, trade.symbol, avgFillPrice)
             /\ audit_trail' = FillAuditEntries(file, trade.symbol)
             /\ active_orders' = Untrack(active_orders, id)
             /\ UNCHANGED <<trades, next_order_id>>

OnOrderStatus(id, status, filled, avgFillPrice) ==
  /\ UNCHANGED resilience_vars
  /\ HandleOrderStatus(id, status, filled, avgFillPrice)

\* TradeManager.sync_with_broker: no persisted trade has trade_status Live,
\* so no position is copied; the method ends with save_trades() unless the
\* circuit breaker is open
SyncWithBroker ==
  /\ UNCHANGED resilience_vars
  /\ \E saved \in BOOLEAN :
       file' = IF saved THEN _save_trades(trades) ELSE file
  /\ e2e' = E2EOff
  /\ last_tick' = ""
  /\ audit_trail' = 0
  /\ UNCHANGED <<trades, active_orders, next_order_id, entry_fill>>

\* the broker's order events: a fill at a price, an acknowledgement, or a
\* cancellation without any fill
OrderEvents ==
  [status : {"Filled"}, filled : Quantities, avgFillPrice : FillPrices]
    \cup [status : {"Submitted", "Cancelled"}, filled : {0}, avgFillPrice : {0}]

Next ==
  \/ \E symbol \in TradedSymbols, price \in Prices : EvaluateTradeOnTick(symbol, price)
  \/ \E symbol \in TradedSymbols, p \in FillPrices, q \in Quantities : MarkTradeFilled(symbol, p, q)
  \/ \E symbol \in TradedSymbols, p \in FillPrices, q \in Quantities : MarkTradeClosed(symbol, p, q)
  \/ \E id \in 1 .. MaxOrders, ev \in OrderEvents :
        OnOrderStatus(id, ev.status, ev.filled, ev.avgFillPrice)
  \/ SyncWithBroker

Spec == Init /\ [][Next]_vars

\* ------------------------------------------- the CircuitBreaker on its own

\* breaker.record_failure()
RecordFailure ==
  /\ breaker.failure_count < MaxFailures
  /\ BreakerCalls(<<"record_failure">>)
  /\ UNCHANGED <<now, trade_vars, retry_vars, tick_vars, fill_vars, evaluator_vars, task_vars, race_vars>>

\* breaker.record_success()
RecordSuccess ==
  /\ BreakerCalls(<<"record_success">>)
  /\ UNCHANGED <<now, trade_vars, retry_vars, tick_vars, fill_vars, evaluator_vars, task_vars, race_vars>>

\* breaker.can_execute()
CanExecute ==
  /\ BreakerCalls(<<"can_execute">>)
  /\ UNCHANGED <<now, trade_vars, retry_vars, tick_vars, fill_vars, evaluator_vars, task_vars, race_vars>>

\* time passes
AdvanceTime ==
  /\ now + TimeStep <= MaxTime
  /\ now' = now + TimeStep
  /\ UNCHANGED <<breaker, returned, failures_since_success, opened, breaker_calls>>
  /\ UNCHANGED <<trade_vars, retry_vars, tick_vars, fill_vars, evaluator_vars, task_vars, race_vars>>

InitBreaker ==
  /\ TradeInit
  /\ ErrorHandlerInit
  /\ TickHandlerInit
  /\ OrderExecutorInit
  /\ EvaluatorInit
  /\ BackgroundTaskInit
  /\ \E cb \in {broker_circuit_breaker, market_data_circuit_breaker} : BreakerInit(cb)

NextBreaker ==
  \/ RecordFailure
  \/ RecordSuccess
  \/ CanExecute
  \/ AdvanceTime

SpecBreaker == InitBreaker /\ [][NextBreaker]_vars

\* ------------------------------- the tick path with its circuit breaker

\* TradeManager.evaluate_trade_on_tick with the broker circuit breaker and
\* an Exception raised at the point `fault`
EvaluateTradeOnTickGuarded(symbol, price, fault) ==
  /\ last_tick' = symbol
  /\ tick_raised' = (fault # "none" /\ CaughtBy(fault) = "caller")
  /\ UNCHANGED <<now, retry_vars, fill_vars, evaluator_vars, task_vars, race_vars, tick_order_vars>>
  /\ IF fault = "fresh_read" \/ SkipsEvaluation(file, symbol)
       THEN /\ NoEvaluation(symbol, price, fault = "none")
            /\ BreakerCalls(<< >>)
     ELSE IF fault = "body"
       THEN /\ breaker.failure_count < MaxFailures
            /\ BreakerCalls(<<"record_failure">>)
            /\ audit_trail' = IF symbol \in DOMAIN trades THEN 1 ELSE 0
            /\ e2e' = E2ENext(Tick(symbol, price, FALSE))
            /\ UNCHANGED <<file, trades, active_orders, next_order_id, entry_fill>>
     ELSE /\ BreakerCalls(<<"can_execute">>)
          /\ IF ~can_execute(breaker, now).returned \/ fault = "evaluator"
               THEN NoEvaluation(symbol, price, FALSE)
             ELSE EvaluateTradeInternal(symbol, price, fault # "persistence")

\* TradeManager.sync_with_broker with the broker circuit breaker;
\* `positions` is what execute_with_retry(get_positions) returned: "none"
\* after the attempts raised, an "empty" list or "some" positions, and it
\* is "error" when an Exception reaches the except clause of the method.
\* No persisted trade has trade_status Live, so no position is copied.
SyncWithBrokerGuarded(positions) ==
  /\ e2e' = E2EOff
  /\ last_tick' = ""
  /\ UNCHANGED <<trades, active_orders, next_order_id, entry_fill>>
  /\ UNCHANGED <<now, retry_vars, tick_vars, fill_vars, evaluator_vars, task_vars, race_vars>>
  /\ IF ~can_execute(breaker, now).returned
       THEN /\ BreakerCalls(<<"can_execute">>)
            /\ audit_trail' = 0
            /\ UNCHANGED file
     ELSE IF positions = "error"
       THEN /\ breaker.failure_count < MaxFailures
            /\ BreakerCalls(<<"can_execute", "record_failure">>)
            /\ audit_trail' = 1
            /\ UNCHANGED file
     ELSE /\ BreakerCalls(IF positions = "some" THEN <<"can_execute", "record_success">>
                          ELSE <<"can_execute">>)
          /\ audit_trail' = 0
          /\ file' = _save_trades(trades)

\* TickHandler.on_tick: the tick is put on the queue
OnTick(tick) ==
  /\ Len(tick_queue) < MaxQueue
  /\ tick_queue' = Append(tick_queue, tick)
  /\ UNCHANGED <<tick_loop, tick_raised, trade_vars, breaker_vars, retry_vars, fill_vars, evaluator_vars, task_vars, race_vars>>
  /\ UNCHANGED tick_order_vars

\* TickHandler.process_tick_queue: one iteration of the loop
ProcessTickQueue ==
  /\ tick_loop = "running"
  /\ tick_queue # << >>
  /\ tick_queue' = Tail(tick_queue)
  /\ LET tick == Head(tick_queue)
     IN IF tick.price = NaN
          THEN UNCHANGED <<tick_raised, trade_vars, breaker_vars, retry_vars, fill_vars,
                           evaluator_vars, task_vars, race_vars, tick_order_vars>>
        ELSE \E fault \in TickFaults :
               EvaluateTradeOnTickGuarded(tick.symbol, tick.price, fault)
  /\ tick_loop' = LoopAfter(tick_raised')

\* time passes until the recovery timeout of the open breaker has elapsed
RecoveryTimeoutElapses ==
  /\ breaker.state = "OPEN"
  /\ ~RecoveryTimeoutPassed(breaker, now)
  /\ now' = Val(breaker.last_failure_time) + breaker.recovery_timeout + TimeStep
  /\ now' <= MaxTime
  /\ UNCHANGED <<breaker, returned, failures_since_success, opened, breaker_calls>>
  /\ UNCHANGED <<trade_vars, retry_vars, tick_vars, fill_vars, evaluator_vars, task_vars, race_vars>>

\* a TradeManager whose trade file holds the activated AAPL trade
InitResilience ==
  /\ Init
  /\ file = ("AAPL" :> NewTrade(Working, Pending))

NextResilience ==
  \/ \E tick \in QueuedTicks : OnTick(tick)
  \/ ProcessTickQueue
  \/ \E positions \in {"none", "empty", "some", "error"} : SyncWithBrokerGuarded(positions)
  \/ RecoveryTimeoutElapses

SpecResilience == InitResilience /\ [][NextResilience]_vars

\* ------------------------------------------------- the broker unreachable

\* no broker call succeeds: no order is accepted
BrokerDown == active_orders' = active_orders

\* evaluate_trade_on_tick called for a tick (TickHandler, or the tick
\* endpoints of app.py) while the broker is unreachable
TickDuringOutage(symbol, price, fault) ==
  /\ EvaluateTradeOnTickGuarded(symbol, price, fault)
  /\ BrokerDown
  /\ UNCHANGED <<tick_queue, tick_loop>>

\* a tick evaluation without a fault of its own, for a price that triggers
\* the entry of the trade: it places the entry order unless it returns at
\* the circuit breaker
EntryAttemptDuringOutage ==
  \E symbol \in DOMAIN file, price \in Prices :
    /\ should_trigger_entry(Config[symbol], price)
    /\ TickDuringOutage(symbol, price, "none")

\* sync_with_broker while the broker is unreachable: get_positions raises
\* at every attempt
SyncDuringOutage == SyncWithBrokerGuarded("none")

NextOutage ==
  \/ \E symbol \in TradedSymbols, price \in Prices, fault \in TickFaults :
        TickDuringOutage(symbol, price, fault)
  \/ SyncDuringOutage
  \/ RecoveryTimeoutElapses

\* ticks that trigger the entry keep being evaluated
SpecOutage == InitResilience /\ [][NextOutage]_vars /\ WF_vars(EntryAttemptDuringOutage)

\* ------------------------------------------------- the fill consumer

\* the broker delivers the event `ev` of order `id` to on_order_status, and
\* its processing raises at the point `fault`
DeliverOrderStatus(id, ev, fault) ==
  /\ "on_order_status" \in handlers
  /\ fault # "none" => id \in DOMAIN active_orders /\ ev.status = "Filled"
  /\ delivered' = [orderId |-> id, status |-> ev.status, filled |-> ev.filled,
                   avgFillPrice |-> ev.avgFillPrice, fault |-> fault]
  /\ fill_raised' = (fill_raised \/ fault # "none")
  /\ handlers' = HandlersAfter(handlers, fault # "none")
  /\ UNCHANGED <<breaker_vars, retry_vars, tick_vars, evaluator_vars, task_vars, race_vars>>
  /\ IF fault \in {"format", "routing"}
       THEN /\ routed' = "raised"
            /\ e2e' = E2EOff
            /\ last_tick' = ""
            /\ audit_trail' = 0
            /\ UNCHANGED <<file, trades, active_orders, next_order_id, entry_fill>>
     ELSE IF fault = "task"
       THEN /\ routed' = Routing(active_orders, id, ev.status)
            /\ e2e' = E2EOff
            /\ last_tick' = ""
            /\ audit_trail' = FillAuditEntries(file, active_orders[id].symbol)
            /\ active_orders' = Untrack(active_orders, id)
            /\ UNCHANGED <<file, trades, next_order_id, entry_fill>>
     ELSE /\ routed' = Routing(active_orders, id, ev.status)
          /\ HandleOrderStatus(id, ev.status, ev.filled, ev.avgFillPrice)

\* a TradeManager with its OrderExecutor and the activated AAPL trade
InitFills ==
  /\ Init
  /\ file = ("AAPL" :> NewTrade(Working, Pending))

NextFills ==
  \/ \E symbol \in DOMAIN file, price \in Prices : EvaluateTradeOnTick(symbol, price)
  \/ \E id \in 1 .. MaxOrders, ev \in OrderEvents, fault \in FillFaults :
       DeliverOrderStatus(id, ev, fault)

SpecFills == InitFills /\ [][NextFills]_vars

\* ---------------------------------------------- the order of the ticks

\* TickHandler.on_tick: a task that will put the tick on the queue is
\* created; `arrival` numbers the ticks in the order on_tick was called
OnTickCreatesTask(tick) ==
  /\ Len(tick_history.arrivals) < MaxTicks
  /\ put_tasks' = Append(put_tasks, [symbol |-> tick.symbol, price |-> tick.price,
                                     arrival |-> Len(tick_history.arrivals) + 1])
  /\ tick_history' = [tick_history EXCEPT !.arrivals = Append(@, tick)]
  /\ UNCHANGED <<tick_queue, tick_loop, tick_raised, evaluating>>
  /\ UNCHANGED <<trade_vars, breaker_vars, retry_vars, fill_vars, evaluator_vars, task_vars, race_vars>>

\* the event loop runs a put task: tick_queue.put(tick)
RunPutTask ==
  /\ put_tasks # << >>
  /\ tick_queue' = Append(tick_queue, put_tasks[ReadyTask(put_tasks)])
  /\ put_tasks' = RemoveAt(put_tasks, ReadyTask(put_tasks))
  /\ UNCHANGED <<tick_loop, tick_raised, evaluating, tick_history>>
  /\ UNCHANGED <<trade_vars, breaker_vars, retry_vars, fill_vars, evaluator_vars, task_vars, race_vars>>

\* process_tick_queue from tick_queue.get() to the call of
\* evaluate_trade_on_tick, which reads the trade of the symbol from the
\* file; a NaN tick is skipped.  What the evaluation reads is represented
\* by the arrival number of the tick whose evaluation wrote last.
TakeTick ==
  /\ tick_loop = "running"
  /\ TakesNextTick(evaluating)
  /\ tick_queue # << >>
  /\ tick_queue' = Tail(tick_queue)
  /\ LET tick == Head(tick_queue)
     IN IF tick.price = NaN
          THEN UNCHANGED <<evaluating, tick_history>>
        ELSE /\ evaluating' = Append(evaluating,
                                      [tick |-> tick,
                                       read |-> tick_history.written[tick.symbol]])
             /\ tick_history' = [tick_history EXCEPT !.started = Append(@, tick.arrival)]
  /\ UNCHANGED <<put_tasks, tick_loop, tick_raised>>
  /\ UNCHANGED <<trade_vars, breaker_vars, retry_vars, fill_vars, evaluator_vars, task_vars, race_vars>>

\* an evaluate_trade_on_tick call of the loop returns, its writes done
FinishEvaluation ==
  /\ \E i \in 1 .. Len(evaluating) :
       /\ evaluating' = RemoveAt(evaluating, i)
       /\ tick_history' = [tick_history EXCEPT
            !.written[evaluating[i].tick.symbol] = evaluating[i].tick.arrival]
  /\ UNCHANGED <<tick_queue, put_tasks, tick_loop, tick_raised>>
  /\ UNCHANGED <<trade_vars, breaker_vars, retry_vars, fill_vars, evaluator_vars, task_vars, race_vars>>

NextTickOrder ==
  \/ \E tick \in QueuedTicks : OnTickCreatesTask(tick)
  \/ RunPutTask
  \/ TakeTick
  \/ FinishEvaluation

SpecTickOrder == InitResilience /\ [][NextTickOrder]_vars

\* ------------------------------------------- the evaluators on their own

\* stop_loss_evaluator.should_trigger_stop(trade, price, rolling_window)
ShouldTriggerStop(direction, static_stop, dynamic_stop, current_price) ==
  /\ evaluation' = StopEvaluation(direction, static_stop, dynamic_stop, current_price)
  /\ UNCHANGED <<trailing, trade_vars, breaker_vars, retry_vars, tick_vars, fill_vars, task_vars, race_vars>>

\* entry_evaluator.should_trigger_entry(trade, price, rolling_window)
ShouldTriggerEntry(direction, entry_source, entry_value, current_price) ==
  /\ evaluation' = EntryEvaluation(direction, entry_source, entry_value, current_price)
  /\ UNCHANGED <<trailing, trade_vars, breaker_vars, retry_vars, tick_vars, fill_vars, task_vars, race_vars>>

\* take_profit_evaluator.should_trigger_take_profit(trade, price)
ShouldTriggerTakeProfit(direction, rules, condition, current_price) ==
  /\ evaluation' = TakeProfitEvaluation(direction, rules, condition, current_price)
  /\ UNCHANGED <<trailing, trade_vars, breaker_vars, retry_vars, tick_vars, fill_vars, task_vars, race_vars>>

\* _evaluate_child_orders, trailing stop part, for the tick of a filled
\* trade: the trade dict read from the file for this tick is updated and
\* checked, and no statement writes it back (save_trades() of an exit
\* writes self.trades, which does not hold this dict)
EvaluateTrailingStop(new_stop, current_price) ==
  /\ LET trade == [direction |-> trailing.direction,
                   current_trailing_stop |-> trailing.stored]
         active == is_trailing_stop_active(trade)
         update == active /\ should_update_trailing_stop(trade.direction,
                                 trade.current_trailing_stop, new_stop)
         updated == IF update THEN [trade EXCEPT !.current_trailing_stop = new_stop]
                    ELSE trade
     IN trailing' = [trailing EXCEPT
          !.candidate = IF active THEN new_stop ELSE None,
          !.on_dict = updated.current_trailing_stop,
          !.triggered = active /\ should_trigger_trailing_stop(updated, current_price)]
  /\ UNCHANGED <<evaluation, trade_vars, breaker_vars, retry_vars, tick_vars, fill_vars, task_vars, race_vars>>

NextTrailing ==
  \E new_stop \in TrailingCandidates, current_price \in TrailingTickPrices :
    EvaluateTrailingStop(new_stop, current_price)

\* nothing of the engine sets current_trailing_stop: the file has what
\* the trade was saved with
InitTrailing ==
  /\ TradeInit
  /\ BreakerInit(broker_circuit_breaker)
  /\ ErrorHandlerInit
  /\ TickHandlerInit
  /\ OrderExecutorInit
  /\ BackgroundTaskInit
  /\ evaluation = None
  /\ \E direction \in Directions, stored \in StoredTrailingStops :
       trailing = FilledTrade(direction, stored)

SpecTrailing == InitTrailing /\ [][NextTrailing]_vars

NextEvaluators ==
  \/ \E direction \in Directions, static_stop \in StopLevels, dynamic_stop \in StopLevels,
        current_price \in StopTickPrices :
       ShouldTriggerStop(direction, static_stop, dynamic_stop, current_price)
  \/ \E direction \in Directions, entry_source \in EntrySources, entry_value \in EntryValues,
        current_price \in EntryTickPrices :
       ShouldTriggerEntry(direction, entry_source, entry_value, current_price)
  \/ \E direction \in Directions, rules \in TakeProfitRules,
        condition \in TakeProfitConditions, current_price \in TakeProfitTickPrices :
       ShouldTriggerTakeProfit(direction, rules, condition, current_price)

SpecEvaluators == Init /\ [][NextEvaluators]_vars

\* -------------------------------------------- TradeManager.start and stop

\* TradeManager.start(): creates the task unless _sync_task is set
Start ==
  /\ IF _sync_task = None
       THEN /\ Len(sync_tasks) < MaxTasks
            /\ sync_tasks' = Append(sync_tasks, "pending")
            /\ _sync_task' = Some(Len(sync_tasks) + 1)
            /\ stop_call' = [stop_call EXCEPT !.stopped = FALSE]
     ELSE UNCHANGED task_vars
  /\ UNCHANGED <<trade_vars, breaker_vars, retry_vars, tick_vars, fill_vars, evaluator_vars, race_vars>>

\* the event loop runs the task: sync_with_broker() up to its await of
\* get_positions, or to its end when the circuit breaker is open
SyncTaskRuns(task) ==
  /\ sync_tasks[task] = "pending"
  /\ \E state \in {"suspended", "finished"} :
       sync_tasks' = [sync_tasks EXCEPT ![task] = state]
  /\ UNCHANGED <<_sync_task, stop_call>>
  /\ UNCHANGED <<trade_vars, breaker_vars, retry_vars, tick_vars, fill_vars, evaluator_vars, race_vars>>

\* sync_with_broker() returns: every exception of the sync is caught in it
SyncTaskReturns(task) ==
  /\ sync_tasks[task] = "suspended"
  /\ sync_tasks' = [sync_tasks EXCEPT ![task] = "finished"]
  /\ UNCHANGED <<_sync_task, stop_call>>
  /\ UNCHANGED <<trade_vars, breaker_vars, retry_vars, tick_vars, fill_vars, evaluator_vars, race_vars>>

\* the event loop throws CancelledError into the task; `except Exception`
\* of sync_with_broker and of execute_with_retry does not catch it
SyncTaskCancelled(task) ==
  /\ sync_tasks[task] = "cancelling"
  /\ sync_tasks' = [sync_tasks EXCEPT ![task] = "cancelled"]
  /\ UNCHANGED <<_sync_task, stop_call>>
  /\ UNCHANGED <<trade_vars, breaker_vars, retry_vars, tick_vars, fill_vars, evaluator_vars, race_vars>>

\* TradeManager.stop() up to its await: without a task it returns at once
StopCalled ==
  /\ stop_call.pc = "idle"
  /\ ~stop_call.raised
  /\ stop_call.returned < MaxStops
  /\ IF _sync_task = None
       THEN /\ stop_call' = [stop_call EXCEPT !.returned = @ + 1, !.stopped = TRUE]
            /\ UNCHANGED <<_sync_task, sync_tasks>>
     ELSE /\ sync_tasks' = [sync_tasks EXCEPT ![_sync_task[1]] = cancel(@)]
          /\ stop_call' = [stop_call EXCEPT !.pc = "awaiting", !.awaited = _sync_task]
          /\ UNCHANGED _sync_task
  /\ UNCHANGED <<trade_vars, breaker_vars, retry_vars, tick_vars, fill_vars, evaluator_vars, race_vars>>

\* TradeManager.stop() from its await to its end: the awaited task has ended
StopResumes ==
  /\ stop_call.pc = "awaiting"
  /\ ~Running(sync_tasks[stop_call.awaited[1]])
  /\ IF Swallowed(Awaited(sync_tasks[stop_call.awaited[1]]))
       THEN /\ _sync_task' = None
            /\ stop_call' = [stop_call EXCEPT !.pc = "idle", !.awaited = None,
                                              !.returned = @ + 1, !.stopped = TRUE]
     ELSE /\ stop_call' = [stop_call EXCEPT !.pc = "idle", !.awaited = None,
                                            !.raised = TRUE]
          /\ UNCHANGED _sync_task
  /\ UNCHANGED sync_tasks
  /\ UNCHANGED <<trade_vars, breaker_vars, retry_vars, tick_vars, fill_vars, evaluator_vars, race_vars>>

NextTasks ==
  \/ Start
  \/ \E task \in 1 .. MaxTasks :
       /\ task \in DOMAIN sync_tasks
       /\ \/ SyncTaskRuns(task)
          \/ SyncTaskReturns(task)
          \/ SyncTaskCancelled(task)
  \/ StopCalled
  \/ StopResumes

SpecTasks == Init /\ [][NextTasks]_vars


\* ------------------------------------ the exits of one tick on their own

\* the exits of _evaluate_child_orders
ExitNames == <<"stop_loss", "take_profit", "trailing_stop">>

\* the order of the three blocks of _evaluate_child_orders, as indexes of
\* ExitNames
ExitOrder_TrailingFirst == <<3, 2, 1>>

ExitOrder == <<1, 2, 3>>

\* the _execute_* calls of one _evaluate_child_orders, in the order they
\* are made: the k-th block calls its exit when its condition holds, and an
\* exit that raises ends the evaluation.  outs[i] is the outcome of the
\* order placement of exit i.
RECURSIVE ExecutedExits(_, _, _, _, _)
ExecutedExits(trade, cfg, price, outs, k) ==
  IF k > Len(ExitOrder) THEN << >>
  ELSE LET i == ExitOrder[k]
       IN IF ~ExitTriggered(trade, cfg, price)[i]
            THEN ExecutedExits(trade, cfg, price, outs, k + 1)
          ELSE IF outs[i] = "raise" THEN <<ExitNames[i]>>
          ELSE <<ExitNames[i]>> \o ExecutedExits(trade, cfg, price, outs, k + 1)

\* a trade that was filled, as the tick reads it from the file
FilledRecord ==
  [NewTrade(ContingentOrderWorking, Filled) EXCEPT !.filled_qty = Some(50),
                                                    !.executed_price = Some(220)]

\* rule configurations of a filled trade: the two of Config, and a Long and
\* a Short trade whose stop, target and trailing stop are at one price
ExitConfigs ==
  { Config["AAPL"], Config["MSFT"],
    [Config["AAPL"] EXCEPT !.take_profit_value = Some(200),
                           !.current_trailing_stop = Some(210)],
    [Config["MSFT"] EXCEPT !.take_profit_value = Some(250)] }

\* tick prices at, and between, the exit levels of ExitConfigs
ExitTickPrices == {200, 220, 250}

\* _evaluate_child_orders(trade, price, rolling_window) as a call record
ChildOrdersEvaluation(cfg, price, outs) ==
  [evaluator |-> "_evaluate_child_orders", cfg |-> cfg, price |-> price, outs |-> outs,
   triggered |-> ExitTriggered(FilledRecord, cfg, price),
   exits |-> ExecutedExits(FilledRecord, cfg, price, outs, 1),
   placed |-> _evaluate_child_orders(FilledRecord, cfg, price, outs).placed]

EvaluateChildOrders(cfg, price, outs) ==
  /\ evaluation' = ChildOrdersEvaluation(cfg, price, outs)
  /\ UNCHANGED <<trailing, trade_vars, breaker_vars, retry_vars, tick_vars, fill_vars, task_vars, race_vars>>

NextExits ==
  \E cfg \in ExitConfigs, price \in ExitTickPrices, outs \in [1 .. 3 -> Outcomes] :
    EvaluateChildOrders(cfg, price, outs)

SpecExits == InitResilience /\ [][NextExits]_vars

\* --------------------------------- the trailing stop after the entry fill

\* mark_trade_filled for a trade with or without a trailing stop rule
\* (trailing_stop_rules[0]): it logs that the trailing stop will be
\* initialized on the next tick and leaves current_trailing_stop as the
\* file has it; initialize_trailing_stop is called from nowhere
MarkTradeFilledTrailing(trailing_stop_rule) ==
  /\ evaluation' = [evaluator |-> "mark_trade_filled",
                    trailing_stop_rule |-> trailing_stop_rule,
                    current_trailing_stop |-> trailing.stored]
  /\ trailing' = FilledTrade(trailing.direction, trailing.stored)
  /\ UNCHANGED <<trade_vars, breaker_vars, retry_vars, tick_vars, fill_vars, task_vars, race_vars>>

\* the fill of the entry order and the ticks of the trade
NextTrailingAfterFill ==
  \/ \E trailing_stop_rule \in BOOLEAN : MarkTradeFilledTrailing(trailing_stop_rule)
  \/ NextTrailing

SpecTrailingAfterFill == InitTrailing /\ [][NextTrailingAfterFill]_vars

\* ------------------------------- ticks of a trade with an indicator rule

\* evaluate_trade_on_tick of the Working trade whose entry rule is an
\* indicator rule.  The bars of the tick are the closes seen so far with the
\* tick price appended; without bars (no market data client, too few bars,
\* a failed fetch) the rolling window passed on is None.  An entry that
\* triggers is submitted as on every tick, here with an accepted order.
IndicatorEntryTick(price, bars_available, rule, ma_type) ==
  LET cfg == IndicatorConfig(rule, ma_type)
      history == WindowAppend(IF evaluation = None THEN << >> ELSE evaluation.history, price)
      rolling_window == IF bars_available THEN Some(history) ELSE None
      triggered == _evaluate_indicator_rule(cfg, price, rolling_window)
      insufficient == IsNone(rolling_window) \/ Len(Val(rolling_window)) < Lookback(cfg)
      r == _evaluate_entry_attempts("AAPL",
             [trade |-> file["AAPL"], file |-> file, trades |-> trades,
              placed |-> 0, audit |-> 0], RetryOutcomes(0, "ok"), 1)
  IN /\ evaluation # None => evaluation.cfg = cfg
     /\ evaluation' = [evaluator |-> "indicator_entry", cfg |-> cfg, history |-> history,
                       rolling_window |-> rolling_window, current_price |-> price,
                       insufficient |-> insufficient, triggered |-> triggered,
                       waited |-> (insufficient \/ (evaluation # None /\ evaluation.waited))]
     /\ last_tick' = "AAPL"
     /\ IF triggered
          THEN /\ next_order_id + r.placed - 1 <= MaxOrders
               /\ file' = r.file
               /\ trades' = r.trades
               /\ active_orders' = TrackOrders(active_orders, next_order_id, r.placed,
                                               "AAPL", r.trade.order_status)
               /\ next_order_id' = next_order_id + r.placed
               /\ audit_trail' = r.audit
               /\ UNCHANGED entry_fill
               /\ e2e' = E2ENext(Tick("AAPL", price, TRUE))
        ELSE NoEvaluation("AAPL", price, TRUE)
     /\ UNCHANGED <<trailing, breaker_vars, retry_vars, tick_vars, fill_vars, task_vars, race_vars>>

NextIndicators ==
  \E price \in IndicatorPrices, bars_available \in BOOLEAN,
     rule \in IndicatorRules, ma_type \in {"sma", "ema"} :
    IndicatorEntryTick(price, bars_available, rule, ma_type)

SpecIndicators == InitResilience /\ [][NextIndicators]_vars

\* ---------------------------------- ticks of a trade at the portfolio gate

\* evaluate_trade_on_tick of the AAPL trade with the given keys for the
\* portfolio gate: _evaluate_entry_conditions returns when the gate is
\* active and rejects, and otherwise evaluates the entry rule and submits
\* the entry order (here accepted by the broker)
GatedEntryTick(portfolio_filters, quantity, current_price, price) ==
  LET trade == GatedTrade(portfolio_filters, quantity, current_price)
      portfolio_data == _get_portfolio_data(trade)
      submits == /\ ~EvaluatesChildOrders(file["AAPL"])
                 /\ PassesPortfolioCheck(trade)
                 /\ should_trigger_entry(Config["AAPL"], price)
      r == _evaluate_entry_attempts("AAPL",
             [trade |-> file["AAPL"], file |-> file, trades |-> trades,
              placed |-> 0, audit |-> 0], RetryOutcomes(0, "ok"), 1)
  IN /\ evaluation' = [evaluator |-> "should_allow_trade", trade |-> trade,
                       price |-> price,
                       active |-> is_portfolio_filter_active(trade),
                       required |-> _calculate_required_buying_power(trade, portfolio_data),
                       available |-> portfolio_data.available_buying_power,
                       allowed |-> should_allow_trade(trade, portfolio_data),
                       submitted |-> submits]
     /\ last_tick' = "AAPL"
     /\ IF submits
          THEN /\ next_order_id + r.placed - 1 <= MaxOrders
               /\ file' = r.file
               /\ trades' = r.trades
               /\ active_orders' = TrackOrders(active_orders, next_order_id, r.placed,
                                               "AAPL", r.trade.order_status)
               /\ next_order_id' = next_order_id + r.placed
               /\ audit_trail' = r.audit
               /\ UNCHANGED entry_fill
               /\ e2e' = E2ENext(Tick("AAPL", price, TRUE))
        ELSE NoEvaluation("AAPL", price, TRUE)
     /\ UNCHANGED <<trailing, breaker_vars, retry_vars, tick_vars, fill_vars, task_vars, race_vars>>

NextPortfolio ==
  \E portfolio_filters \in GateFilters, quantity \in GateQuantities,
     current_price \in GateCurrentPrices, price \in Prices :
    GatedEntryTick(portfolio_filters, quantity, current_price, price)

SpecPortfolio == InitResilience /\ [][NextPortfolio]_vars

\* -------------------------- a tick evaluation interleaved with a fill

\* evaluate_trade_on_tick up to its first await (get_historical_data): it
\* has read its trade from the file and passed the terminal-state guard
TickSuspends(symbol, price) ==
  /\ suspended = None
  /\ ~SkipsEvaluation(file, symbol)
  /\ suspended' = [symbol |-> symbol, price |-> price, trade |-> file[symbol]]
  /\ UNCHANGED <<trade_vars, breaker_vars, retry_vars, tick_vars, fill_vars,
                 evaluator_vars, task_vars>>

\* evaluate_trade_on_tick from that await to its end: _evaluate_trade_internal
\* on the trade dict read before the await
TickResumes ==
  /\ suspended # None
  /\ suspended' = None
  /\ last_tick' = suspended.symbol
  /\ EvaluateTradeCopy(suspended.symbol, suspended.trade, suspended.price, TRUE)
  /\ UNCHANGED <<breaker_vars, retry_vars, tick_vars, fill_vars, evaluator_vars, task_vars>>

\* ticks that wait at their await, and the fills of the tracked orders,
\* which the event loop runs while a tick waits or between two ticks
NextInterleaved ==
  \/ \E symbol \in DOMAIN file, price \in Prices : TickSuspends(symbol, price)
  \/ TickResumes
  \/ \E id \in DOMAIN active_orders, ev \in OrderEvents :
       OnOrderStatus(id, ev.status, ev.filled, ev.avgFillPrice)

SpecInterleaved == InitResilience /\ [][NextInterleaved]_vars

\* --------------------------------- the quantities of the orders of a tick

\* qty of place_market_order: trade.get("calculated_quantity", 0)
EntryQuantity(cfg) == cfg.calculated_quantity

\* qty of submit_exit_order: trade.get("filled_qty",
\* trade.get("calculated_quantity", 0))
ExitQuantity(trade, cfg) ==
  IF ~IsNone(trade.filled_qty) THEN Val(trade.filled_qty) ELSE cfg.calculated_quantity

\* the AAPL trade as a tick reads it: not filled yet, or filled with the
\* filled_qty the fill recorded
QuantityTrades ==
  {NewTrade(Working, Pending)}
    \cup {[NewTrade(ContingentOrderWorking, Filled) EXCEPT !.filled_qty = q,
                                                           !.executed_price = Some(220)] :
            q \in {None, Some(0), Some(50)}}

\* calculated_quantity of the trade; a missing key counts as 0
CalculatedQuantities == {0, 50}

\* _evaluate_trade_internal as a call record: the quantities of the orders
\* it asks the OrderExecutor for and the order_status it leaves on the
\* trade dict.  outs[1] is the outcome of the entry order placement.
QuantityEvaluation(trade, calculated_quantity, price, outs) ==
  LET cfg == [Config["AAPL"] EXCEPT !.calculated_quantity = calculated_quantity]
      entry == ~EvaluatesChildOrders(trade) /\ should_trigger_entry(cfg, price)
      r == _evaluate_entry_attempts("AAPL",
             [trade |-> trade, file |-> file, trades |-> trades, placed |-> 0, audit |-> 0],
             [a \in 1 .. MaxAttempts |-> outs[1]], 1)
  IN [evaluator |-> "_evaluate_trade_internal", trade |-> trade,
      calculated_quantity |-> calculated_quantity, price |-> price, outs |-> outs,
      quantity |-> IF EvaluatesChildOrders(trade) THEN ExitQuantity(trade, cfg)
                   ELSE EntryQuantity(cfg),
      orders |-> IF entry THEN {EntryQuantity(cfg)}
                 ELSE IF EvaluatesChildOrders(trade)
                        /\ ExecutedExits(trade, cfg, price, outs, 1) # << >>
                   THEN {ExitQuantity(trade, cfg)}
                 ELSE {},
      order_status |-> IF entry THEN r.trade.order_status
                       ELSE IF EvaluatesChildOrders(trade)
                         THEN _evaluate_child_orders(trade, cfg, price, outs).order_status
                       ELSE trade.order_status]

EvaluateQuantities(trade, calculated_quantity, price, outs) ==
  /\ evaluation' = QuantityEvaluation(trade, calculated_quantity, price, outs)
  /\ UNCHANGED <<trailing, trade_vars, breaker_vars, retry_vars, tick_vars, fill_vars, task_vars, race_vars>>

NextQuantities ==
  \E trade \in QuantityTrades, calculated_quantity \in CalculatedQuantities,
     price \in ExitTickPrices, outs \in [1 .. 3 -> Outcomes] :
    EvaluateQuantities(trade, calculated_quantity, price, outs)

SpecQuantities == InitResilience /\ [][NextQuantities]_vars

\* ------------------------------- the CircuitBreaker with its status query

\* CircuitBreaker.get_status at time.time() = time: the dict returned and
\* the breaker after the call; state, failure_count and last_failure_time
\* are read before the can_execute() call of the fourth entry
get_status(cb, time) ==
  LET r == can_execute(cb, time)
  IN [returned |-> [state |-> cb.state, failure_count |-> cb.failure_count,
                    last_failure_time |-> cb.last_failure_time,
                    can_execute |-> r.returned],
      breaker |-> r.breaker]

\* breaker.get_status()
GetStatus ==
  /\ breaker' = get_status(breaker, now).breaker
  /\ returned' = Some(get_status(breaker, now).returned)
  /\ breaker_calls' = <<"get_status">>
  /\ UNCHANGED <<now, failures_since_success, opened>>
  /\ UNCHANGED <<trade_vars, retry_vars, tick_vars, fill_vars, evaluator_vars, task_vars, race_vars>>

NextBreakerStatus ==
  \/ RecordFailure
  \/ RecordSuccess
  \/ CanExecute
  \/ GetStatus
  \/ AdvanceTime

SpecBreakerStatus == InitBreaker /\ [][NextBreakerStatus]_vars

\* ------------------------------------------- execute_with_retry on its own

\* error_handler.execute_with_retry(operation_name, operation) is called
StartRetry(operation_name) ==
  /\ retry.pc \in {"idle", "done"}
  /\ error_counts[operation_name] + MaxAttempts <= MaxErrors
  /\ retry' = RetryFrame("try", operation_name)
  /\ UNCHANGED <<error_counts, trade_vars, breaker_vars, tick_vars, fill_vars, evaluator_vars, task_vars, race_vars>>

\* the try block of one loop iteration: the operation runs with `outcome`
Attempt(outcome) ==
  /\ retry.pc = "try"
  /\ LET fr == [retry EXCEPT !.attempts = Append(@, outcome)]
     IN IF ~outcome.raised
          THEN /\ error_counts' = [error_counts EXCEPT ![retry.operation_name] = 0]
               /\ retry' = [fr EXCEPT !.pc = "done",
                                      !.result = Some([kind |-> "return",
                                                       value |-> outcome.value])]
        ELSE /\ error_counts' = [error_counts EXCEPT ![retry.operation_name] = @ + 1]
             /\ retry' = IF retry.attempt < max_retries
                            THEN [fr EXCEPT !.pc = "sleep"]
                          ELSE NextIteration(fr)
  /\ UNCHANGED <<trade_vars, breaker_vars, tick_vars, fill_vars, evaluator_vars, task_vars, race_vars>>

\* the backoff sleep after a failed attempt ends
Sleep ==
  /\ retry.pc = "sleep"
  /\ retry' = NextIteration([retry EXCEPT !.sleeps = Append(@, backoff(retry.attempt))])
  /\ UNCHANGED <<error_counts, trade_vars, breaker_vars, tick_vars, fill_vars, evaluator_vars, task_vars, race_vars>>

InitRetry ==
  /\ TradeInit
  /\ BreakerInit(broker_circuit_breaker)
  /\ ErrorHandlerInit
  /\ TickHandlerInit
  /\ OrderExecutorInit
  /\ EvaluatorInit
  /\ BackgroundTaskInit

NextRetry ==
  \/ \E operation_name \in OperationNames : StartRetry(operation_name)
  \/ \E outcome \in AttemptOutcomes : Attempt(outcome)
  \/ Sleep

SpecRetry == InitRetry /\ [][NextRetry]_vars

\* ============================================================ properties

\* the persisted (order_status, trade_status) of a trade
Statuses(s) == <<file[s].order_status, file[s].trade_status>>

\* the persisted statuses the end-to-end scenario is to show after each of
\* its six operations (index e2e + 1)
E2EExpected ==
  << <<Working, Pending>>,
     <<Working, Pending>>,
     <<EntryOrderSubmitted, Pending>>,
     <<ContingentOrderWorking, Filled>>,
     <<ContingentOrderWorking, Filled>>,
     <<ContingentOrderSubmitted, Filled>>,
     <<Inactive, Closed>> >>

\* C1: for the Long AAPL trade (quantity 50, entry >= 220, stop <= 200,
\* target >= 250) starting at Working / Pending, after each operation of
\* evaluate(215), evaluate(220), entry fill (220, 50), evaluate(210),
\* evaluate(200), exit fill (200, 50) the persisted statuses are the next
\* ones of Working, Entry Order Submitted, Contingent Order Working,
\* Contingent Order Submitted, Inactive and Pending, Filled, Closed, and the
\* scenario ends with realized_pnl = -1000.
C1_EndToEndScenario ==
  e2e \in 0 .. Len(E2EScript) =>
     /\ Statuses("AAPL") = E2EExpected[e2e + 1]
     /\ e2e = Len(E2EScript) => file["AAPL"].realized_pnl = Some(0 - 1000)

\* the tracked orders of the trade of symbol s
TrackedOrders(orders, s) == {id \in DOMAIN orders : orders[id].symbol = s}

\* the tracked entry orders of s: place_market_order is called with the trade
\* at Entry Order Submitted, submit_exit_order leaves it at Contingent Order
\* Submitted
TrackedEntryOrders(orders, s) ==
  {id \in TrackedOrders(orders, s) : orders[id].order_status = EntryOrderSubmitted}

TrackedExitOrders(orders, s) ==
  {id \in TrackedOrders(orders, s) : orders[id].order_status = ContingentOrderSubmitted}

\* C2: while the persisted order_status of a trade is Entry Order Submitted
\* and its entry order is outstanding, no step submits another entry order
\* for the trade.
C2_NoSecondEntryOrder ==
  [][\A s \in DOMAIN file :
       (/\ file[s].order_status = EntryOrderSubmitted
        /\ TrackedEntryOrders(active_orders, s) # {})
       => TrackedEntryOrders(active_orders', s) \subseteq TrackedEntryOrders(active_orders, s)]_vars

C4_NoStaleWrite ==
  [][\A s \in DOMAIN file :
       /\ (file[s].trade_status = Filled /\ file'[s].trade_status # Closed)
            => /\ file'[s].trade_status = Filled
               /\ ~IsNone(file'[s].filled_qty)
               /\ ~IsNone(file'[s].executed_price)
       /\ ~(TrackedExitOrders(active_orders', s) \subseteq TrackedExitOrders(active_orders, s))
            => file'[s].order_status = ContingentOrderSubmitted]_vars

\* the record of a trade is terminal
IsTerminal(trade) ==
  \/ trade.trade_status \in {Closed, Cancelled}
  \/ trade.order_status \in {Cancelled, Rejected, Inactive}

\* C5: evaluate_trade_on_tick(symbol, price) for a symbol without a persisted
\* trade, or whose persisted trade is terminal, submits no order and leaves
\* the persisted trade set and the in-memory trades unchanged and appends
\* nothing to the audit trail.
C5_SkipLeavesAllUnchanged ==
  [][\A symbol \in TradedSymbols, price \in Prices :
       (/\ symbol \in DOMAIN file => IsTerminal(file[symbol])
        /\ EvaluateTradeOnTick(symbol, price))
       => /\ file' = file
          /\ trades' = trades
          /\ active_orders' = active_orders
          /\ next_order_id' = next_order_id
          /\ audit_trail' = 0]_vars

\* the latest operation evaluated a tick of a closed trade
C5_Witness ==
  /\ last_tick \in DOMAIN file
  /\ file[last_tick].trade_status = Closed

\* C6: terminal states are absorbing: once the persisted record of a trade
\* is terminal, no step changes its order_status or trade_status.
C6_TerminalAbsorbing ==
  [][\A s \in DOMAIN file :
       IsTerminal(file[s]) => /\ file'[s].order_status = file[s].order_status
                              /\ file'[s].trade_status = file[s].trade_status]_vars

\* the arrows of the order_status lifecycle
OrderStatusArrow(from, to) ==
  \/ <<from, to>> \in {<<Draft, Working>>,
                       <<Working, EntryOrderSubmitted>>,
                       <<EntryOrderSubmitted, ContingentOrderWorking>>,
                       <<ContingentOrderWorking, ContingentOrderSubmitted>>,
                       <<ContingentOrderSubmitted, Inactive>>}
  \/ to \in {Cancelled, Rejected} /\ from \notin {Cancelled, Rejected, Inactive}

\* the arrows of the trade_status lifecycle
TradeStatusArrow(from, to) ==
  \/ <<from, to>> \in {<<Blank, Pending>>, <<Pending, Filled>>, <<Filled, Closed>>}
  \/ to = Cancelled /\ from \in {Pending, Filled}

\* C7: every change of a persisted order_status follows an arrow of Draft ->
\* Working -> Entry Order Submitted -> Contingent Order Working -> Contingent
\* Order Submitted -> Inactive (or goes to Cancelled/Rejected from a
\* non-terminal state), and every change of a persisted trade_status follows
\* an arrow of blank -> Pending -> Filled -> Closed (or goes to Cancelled from
\* Pending/Filled).
C7_ChangesFollowArrows ==
  [][\A s \in DOMAIN file :
       /\ file'[s].order_status # file[s].order_status
            => OrderStatusArrow(file[s].order_status, file'[s].order_status)
       /\ file'[s].trade_status # file[s].trade_status
            => TradeStatusArrow(file[s].trade_status, file'[s].trade_status)]_vars

\* the (order_status, trade_status) pairs along the legal lifecycle
LegalPairs ==
  ({Draft, Working} \X {Blank, Pending})
    \cup {<<EntryOrderSubmitted, Pending>>,
          <<ContingentOrderWorking, Filled>>,
          <<ContingentOrderSubmitted, Filled>>,
          <<Inactive, Closed>>}

\* C8: in every reachable state the (order_status, trade_status) pair of
\* each persisted trade occurs along the legal lifecycle or is a
\* Cancelled/Rejected pair.
C8_LegalStatusPairs ==
  \A s \in DOMAIN file :
     \/ Statuses(s) \in LegalPairs
     \/ file[s].order_status \in {Cancelled, Rejected}
     \/ file[s].trade_status = Cancelled

C10_MarkClosedRealizedPnl ==
  [][\A symbol \in DOMAIN file, x \in FillPrices, q \in Quantities :
       (/\ ~IsNone(entry_fill[symbol])
        /\ Val(entry_fill[symbol]) > 0
        /\ MarkTradeClosed(symbol, x, q))
       => LET e == Val(entry_fill[symbol])
          IN /\ file'[symbol].order_status = Inactive
             /\ file'[symbol].trade_status = Closed
             /\ file'[symbol].exit_price = Some(x)
             /\ file'[symbol].exit_qty = Some(q)
             /\ file'[symbol].realized_pnl =
                  Some(IF Config[symbol].direction = "Long"
                         THEN (x - e) * q ELSE (e - x) * q)]_vars

\* ------------------------------------------------ circuit breaker claims

\* C11: the lifecycle of a CircuitBreaker.  The record_failure() call that
\* completes failure_threshold calls in a row opens the breaker, and
\* can_execute() then returns false; on an OPEN breaker can_execute()
\* returns false and leaves it OPEN while now - last_failure_time <=
\* recovery_timeout, and returns true and makes it HALF_OPEN once
\* now - last_failure_time > recovery_timeout; a record_success() on a
\* HALF_OPEN breaker closes it.
C11_BreakerLifecycle ==
  [][ /\ RecordFailure /\ failures_since_success' >= breaker.failure_threshold
           => /\ breaker'.state = "OPEN"
              /\ can_execute(breaker', now').returned = FALSE
      /\ CanExecute /\ breaker.state = "OPEN"
           => LET passed == now - Val(breaker.last_failure_time) > breaker.recovery_timeout
              IN /\ returned' = Some(passed)
                 /\ breaker'.state = IF passed THEN "HALF_OPEN" ELSE "OPEN"
      /\ RecordSuccess /\ breaker.state = "HALF_OPEN"
           => breaker'.state = "CLOSED" ]_vars

\* a breaker that opened, recovered and was closed again by a success
C11_Witness ==
  /\ opened
  /\ breaker.state = "CLOSED"

\* C12: on a HALF_OPEN breaker a single record_failure() moves the state to
\* OPEN, whatever calls and delays led to the HALF_OPEN state.
C12_HalfOpenFailureOpens ==
  [][ RecordFailure /\ breaker.state = "HALF_OPEN"
        => breaker'.state = "OPEN" ]_vars

\* C13: a CLOSED breaker opens exactly with the record_failure() call that
\* makes failure_threshold such calls since the latest record_success();
\* while CLOSED, fewer than failure_threshold failures have occurred since
\* the latest success.
C13_OpensExactlyAtThreshold ==
  [][ breaker.state = "CLOSED"
        => /\ failures_since_success < breaker.failure_threshold
           /\ breaker'.state = "OPEN"
                <=> /\ RecordFailure
                    /\ failures_since_success' = breaker.failure_threshold ]_vars

\* a breaker opened by exactly failure_threshold failures in a row
C13_Witness ==
  /\ breaker.state = "OPEN"
  /\ failures_since_success = breaker.failure_threshold
  /\ returned = None

\* --------------------------------------------------- error handler claims

\* the attempts of the call in progress that raised
Raised(fr) == {i \in 1 .. Len(fr.attempts) : fr.attempts[i].raised}

C15_ReturnsResultOrNone ==
  retry.pc = "done"
    => LET n == Len(retry.attempts)
       IN /\ Val(retry.result).kind = "return"
          /\ IF n \in Raised(retry)
               THEN /\ n = max_retries + 1
                    /\ Val(retry.result).value = None
             ELSE Val(retry.result).value = retry.attempts[n].value

\* a call that returned None after max_retries + 1 raising attempts
C15_Witness ==
  /\ retry.pc = "done"
  /\ Raised(retry) = 1 .. max_retries + 1
  /\ retry.result = Some([kind |-> "return", value |-> None])

\* ------------------------------------------------------- tick path claims

\* C16: a tick evaluation that reaches a broker call has first called
\* can_execute() on the broker circuit breaker and records exactly one
\* outcome on it afterwards: record_success() when the entry order was
\* accepted at the only placement of the tick, record_failure() when the
\* only placement of the tick returned no result.
C16_GuardedAndRecorded ==
  [][ ( /\ last_tick' # ""
        /\ breaker_calls' # << >>
        /\ breaker_calls'[1] = "can_execute"
        /\ audit_trail' = 2 )
        => breaker_calls' = IF DOMAIN active_orders' # DOMAIN active_orders
                              THEN <<"can_execute", "record_success">>
                            ELSE <<"can_execute", "record_failure">> ]_vars

\* C17: while no broker call succeeds and ticks that trigger the entry keep
\* being evaluated, the broker circuit breaker is OPEN after finitely many
\* evaluations, and a tick evaluated while it is OPEN and its recovery
\* timeout has not elapsed returns without a broker call.
C17_BreakerOpensDuringOutage ==
  /\ <>(breaker.state = "OPEN")
  /\ [][ ( /\ last_tick' # ""
           /\ breaker_calls' = <<"can_execute">>
           /\ breaker.state = "OPEN"
           /\ ~RecoveryTimeoutPassed(breaker, now) )
           => /\ audit_trail' = 0
              /\ UNCHANGED <<file, trades, active_orders, next_order_id>> ]_vars

\* C18: evaluate_trade_on_tick does not raise to its caller, at whatever
\* point of the evaluation an exception is thrown, and the tick loop keeps
\* running after every tick, so that it processes the tick queued next.
C18_NeverRaisesLoopContinues ==
  /\ ~tick_raised
  /\ tick_loop = "running"

\* the latest tick evaluation ended in the except clause of
\* evaluate_trade_on_tick, and the loop is running with the next tick queued
C18_Witness ==
  /\ last_tick # ""
  /\ breaker_calls = <<"record_failure">>
  /\ tick_queue # << >>
  /\ tick_loop = "running"

\* C19: when the entry order placement of a tick evaluation of a Working
\* trade fails, the order_status of the trade in the file and in memory is
\* afterwards the one read for the tick, the failure is logged, and the
\* placement was attempted once: the audit trail got the entries of one
\* attempt, the transition to Entry Order Submitted and the transition back.
C19_FailedPlacementReverts ==
  [][ \A symbol \in DOMAIN file :
        ( /\ last_tick' = symbol
          /\ file[symbol].order_status = Working
          /\ ~EvaluatesChildOrders(file[symbol])
          /\ audit_trail' > 0
          /\ active_orders' = active_orders )
          => /\ file'[symbol].order_status = file[symbol].order_status
             /\ trades'[symbol].order_status = file[symbol].order_status
             /\ audit_trail' = 2 ]_vars

\* C20: a tick evaluation submits an exit order only for a trade whose
\* trade_status read for that tick is Filled.
C20_ExitOnlyWhenFilled ==
  [][ \A symbol \in TradedSymbols :
        ( /\ last_tick' = symbol
          /\ TrackedExitOrders(active_orders', symbol)
               # TrackedExitOrders(active_orders, symbol) )
          => /\ symbol \in DOMAIN file
             /\ file[symbol].trade_status = Filled ]_vars

\* the latest operation evaluated a tick of a trade that has an exit order
C20_Witness ==
  /\ last_tick \in DOMAIN file
  /\ TrackedExitOrders(active_orders, last_tick) # {}

\* the step handled an event of status Filled whose processing did not raise
FillProcessed ==
  /\ last_tick' = ""
  /\ delivered' # None
  /\ delivered'.status = "Filled"
  /\ delivered'.fault = "none"

Evaluated(evaluator) == evaluation # None /\ evaluation.evaluator = evaluator

\* C23: a stop evaluation has one active stop price: the static stop when
\* there is no dynamic stop, the dynamic stop when there is no static one,
\* and with both the larger of the two for a Long trade and the smaller
\* for a Short trade; the price is compared with that stop alone.
C23_OneActiveStop ==
  Evaluated("should_trigger_stop") =>
    LET static == evaluation.static_stop
        dynamic == evaluation.dynamic_stop
        active == evaluation.active_stop
    IN /\ (~IsNone(static) /\ IsNone(dynamic)) => active = static
       /\ (IsNone(static) /\ ~IsNone(dynamic)) => active = dynamic
       /\ (~IsNone(static) /\ ~IsNone(dynamic)) =>
            /\ ~IsNone(active)
            /\ Val(active) \in {Val(static), Val(dynamic)}
            /\ evaluation.direction = "Long" =>
                 Val(active) >= Val(static) /\ Val(active) >= Val(dynamic)
            /\ evaluation.direction = "Short" =>
                 Val(active) <= Val(static) /\ Val(active) <= Val(dynamic)
       /\ (~IsNone(static) \/ ~IsNone(dynamic)) =>
            evaluation.triggered =
              IF evaluation.direction = "Long"
                THEN evaluation.current_price <= Val(active)
                ELSE evaluation.current_price >= Val(active)

\* the Long trade with static stop 95 and dynamic stop 98 was evaluated at a
\* price between the two and its active stop is 98
C23_Witness ==
  /\ Evaluated("should_trigger_stop")
  /\ evaluation.direction = "Long"
  /\ evaluation.static_stop = Some(95)
  /\ evaluation.dynamic_stop = Some(98)
  /\ evaluation.current_price = 97
  /\ evaluation.active_stop = Some(98)
  /\ evaluation.triggered

ReturnedTargets(ev) ==
  IF ev.triggered_targets # << >> THEN ev.triggered_targets
  ELSE IF ev.triggered THEN << ev.rule >>
  ELSE << >>

\* the targets that the price has reached, primary first
RECURSIVE ReachedTargets(_, _, _)
ReachedTargets(direction, rules, price) ==
  IF rules = << >> THEN << >>
  ELSE LET reached == IF direction = "Long" THEN Head(rules) <= price
                      ELSE Head(rules) >= price
           rest == ReachedTargets(direction, Tail(rules), price)
       IN IF reached THEN << Head(rules) >> \o rest ELSE rest

\* C26: a take-profit evaluation of a trade with several targets returns
\* exactly the targets the price has reached, primary first.
C26_ReturnsReachedTargets ==
  ( /\ Evaluated("should_trigger_take_profit")
    /\ evaluation.condition = (IF evaluation.direction = "Long" THEN ">=" ELSE "<=") ) =>
      ReturnedTargets(evaluation) =
        ReachedTargets(evaluation.direction, evaluation.take_profit_rules,
                       evaluation.current_price)

\* the ratchet: the stored stop after a candidate was computed
Ratchet(direction, stored, candidate) ==
  IF IsNone(stored) THEN candidate
  ELSE IF direction = "Long" /\ Val(candidate) > Val(stored) THEN candidate
  ELSE IF direction = "Short" /\ Val(candidate) < Val(stored) THEN candidate
  ELSE stored

\* C24: each tick evaluation of a filled trade that computed a candidate
\* leaves as the stored current_trailing_stop the more favourable of the
\* stored value and the candidate, so that the stored value never loosens
\* and follows the candidates 100, 98, 105, 103 as 100, 100, 105, 105.
C24_RatchetNeverLoosens ==
  [][ ~IsNone(trailing'.candidate) =>
        trailing'.stored = Ratchet(trailing.direction, trailing.stored, trailing'.candidate)
    ]_vars

\* the arrival numbers of the ticks of `symbol` that carry a price
ValidArrivals(symbol) ==
  {n \in 1 .. Len(tick_history.arrivals) :
     /\ tick_history.arrivals[n].symbol = symbol
     /\ tick_history.arrivals[n].price # NaN}

\* the latest tick of `symbol` with a price that arrived before tick n (0
\* when there is none)
PreviousTick(symbol, n) ==
  LET earlier == {m \in ValidArrivals(symbol) : m < n}
  IN IF earlier = {} THEN 0 ELSE CHOOSE m \in earlier : \A k \in earlier : k <= m

C28_EditingImpliesDraft ==
  \A symbol \in DOMAIN file :
    file[symbol].editing =>
      /\ file[symbol].order_status = Draft
      /\ file[symbol].trade_status \in {Blank, Draft}

\* C29: every change of a trade's order_status or trade_status made by the
\* TradeManager appends an audit entry: a tick evaluation that submits an
\* order (the entry order: Entry Order Submitted, an exit order:
\* Contingent Order Submitted) appends at least one, and a fill that is
\* routed to mark_trade_filled or mark_trade_closed and changes the two
\* statuses of the trade in the file appends two.
C29_StatusChangesAudited ==
  [][ \A symbol \in DOMAIN file :
        /\ ( /\ last_tick' = symbol
             /\ DOMAIN active_orders' # DOMAIN active_orders )
             => audit_trail' >= 1
        /\ ( /\ last_tick' = ""
             /\ file' = [file EXCEPT ![symbol] = file'[symbol]]
             /\ \/ file'[symbol].order_status # file[symbol].order_status
                \/ file'[symbol].trade_status # file[symbol].trade_status
             /\ \E id \in DOMAIN active_orders : id \notin DOMAIN active_orders' )
             => audit_trail' = 2 ]_vars

\* C30: a broker sync whose fetch of the broker's positions fails at every
\* attempt (the circuit breaker let the sync through) records a failure on
\* the broker circuit breaker: record_failure() is called and failure_count
\* increases.
C30_FailedSyncRecordsFailure ==
  [][ ( /\ last_tick' = ""
        /\ now' = now
        /\ can_execute(breaker, now).returned
        /\ breaker_calls' # << >>
        /\ breaker_calls'[1] = "can_execute" )
        => /\ breaker_calls' = <<"can_execute", "record_failure">>
           /\ breaker'.failure_count = breaker.failure_count + 1 ]_vars

\* ------------------------------------------------ background task claims

\* C31: stop() never raises, however many times it is called and whether
\* or not start() was called before, and when it has returned no task that
\* start() created is still running and _sync_task is None (until the next
\* start()).
C31_StopIdempotentAndSafe ==
  /\ ~stop_call.raised
  /\ stop_call.stopped =>
       /\ _sync_task = None
       /\ \A task \in DOMAIN sync_tasks : ~Running(sync_tasks[task])

\* stop() has returned twice in a row after it swallowed the cancellation of
\* a task, and no start() came in between
C31_Witness ==
  /\ stop_call.stopped
  /\ stop_call.returned >= 2
  /\ stop_call.pc = "idle"
  /\ sync_tasks # << >>
  /\ sync_tasks[Len(sync_tasks)] = "cancelled"

\* ------------------------------------------------------- exit order claims

\* the position of an exit in the order stop loss, take profit, trailing stop
ExitRank(name) == CHOOSE i \in 1 .. 3 : ExitNames[i] = name

\* C32: the exits of one tick of a filled trade are executed in the order
\* stop loss, take profit, trailing stop: of two exits executed on the tick
\* the one earlier in that order was executed first, every exit whose
\* condition holds is executed unless an exit before it raised, and each
\* accepted exit order is one executed exit.
C32_ExitsInFixedOrder ==
  Evaluated("_evaluate_child_orders") =>
    LET exits == evaluation.exits
        raised(i) == evaluation.triggered[i] /\ evaluation.outs[i] = "raise"
    IN /\ \A a, b \in DOMAIN exits : a < b => ExitRank(exits[a]) < ExitRank(exits[b])
       /\ \A i \in 1 .. 3 :
            (\E a \in DOMAIN exits : exits[a] = ExitNames[i])
              <=> ( /\ evaluation.triggered[i]
                    /\ \A j \in 1 .. (i - 1) : ~raised(j) )
       /\ evaluation.placed
            = Cardinality({a \in DOMAIN exits : evaluation.outs[ExitRank(exits[a])] = "ok"})

\* the three exit conditions held on one tick and the three exits were
\* executed
C32_Witness ==
  /\ Evaluated("_evaluate_child_orders")
  /\ evaluation.triggered = <<TRUE, TRUE, TRUE>>
  /\ evaluation.exits = ExitNames

\* C33: after mark_trade_filled of a trade with a trailing stop rule the
\* current_trailing_stop of the trade is set, which is what makes the
\* ticks after the fill run the trailing stop update and trigger checks.
C33_TrailingInitializedAtFill ==
  (Evaluated("mark_trade_filled") /\ evaluation.trailing_stop_rule) =>
    trailing.stored # None

\* C34: after a stop evaluation of a trade with a static and a dynamic
\* (trailing) stop at different prices, the recorded type of the active stop
\* names the stop whose price is the active one: "dynamic" when the active
\* price is the dynamic stop, "static" when it is the static stop.
C34_ActiveStopTypeNamesSelected ==
  ( /\ Evaluated("should_trigger_stop")
    /\ evaluation.static_stop # None
    /\ evaluation.dynamic_stop # None
    /\ evaluation.static_stop # evaluation.dynamic_stop )
    => /\ evaluation.active_stop = evaluation.dynamic_stop => evaluation.stop_type = "dynamic"
       /\ evaluation.active_stop = evaluation.static_stop => evaluation.stop_type = "static"

\* ------------------------------------------------- indicator entry claims

\* C35: a tick of a trade with an indicator entry rule whose rolling window
\* is missing or holds fewer prices than the lookback of the indicator does
\* not trigger the entry: the trade in the file and in memory and the
\* tracked orders stay as they were and no audit entry is appended.
C35_InsufficientDataNotTriggered ==
  [][ ( /\ evaluation' # None
        /\ evaluation'.evaluator = "indicator_entry"
        /\ evaluation'.insufficient )
        => /\ ~evaluation'.triggered
           /\ UNCHANGED <<file, trades, active_orders, next_order_id>>
           /\ audit_trail' = 0 ]_vars

\* the rule reported insufficient data on an earlier tick and triggered on
\* this one, which submitted the entry order
C35_Witness ==
  /\ Evaluated("indicator_entry")
  /\ evaluation.waited
  /\ ~evaluation.insufficient
  /\ evaluation.triggered
  /\ active_orders # << >>
  /\ file["AAPL"].order_status = EntryOrderSubmitted

\* ------------------------------------------------- portfolio gate claims

\* C36: a tick submits an entry order only if the portfolio gate allows the
\* trade (required buying power within the available one, losses and
\* position within their limits), and a tick whose gate rejects leaves the
\* trade and the tracked orders as they were.
C36_EntryOnlyIfGateAllows ==
  [][ ( /\ evaluation' # None
        /\ evaluation'.evaluator = "should_allow_trade" )
        => /\ DOMAIN active_orders' # DOMAIN active_orders => evaluation'.allowed
           /\ ~evaluation'.allowed
                => UNCHANGED <<file, trades, active_orders, next_order_id>> ]_vars

\* ------------------------------------------------------ interleaving claims

\* what mark_trade_filled and mark_trade_closed record of a fill
FillFacts(trade) ==
  <<trade.trade_status, trade.filled_qty, trade.executed_price,
    trade.exit_price, trade.exit_qty, trade.realized_pnl>>

\* C37: when a fill of the symbol was processed while a tick evaluation of
\* the same symbol waited at its await, the end of the evaluation leaves the
\* trade_status and the fill facts of the persisted record as the fill
\* wrote them, as both serial orders of the two do, and submits no entry
\* order from the trade it read before the fill.
C37_FillNotOverwrittenByStaleTick ==
  [][ ( /\ suspended # None
        /\ suspended' = None
        /\ file[suspended.symbol] # suspended.trade )
        => /\ FillFacts(file'[suspended.symbol]) = FillFacts(file[suspended.symbol])
           /\ \A id \in DOMAIN active_orders' \ DOMAIN active_orders :
                active_orders'[id].order_status = ContingentOrderSubmitted ]_vars

\* ------------------------------------------------------- quantity claims

\* C38: every order a tick evaluation asks the OrderExecutor for, entry or
\* exit, has a quantity above 0, and when the quantity to trade is 0 (or
\* missing) the evaluation asks for no order and leaves the order_status of
\* the trade as it read it.
C38_OrdersHavePositiveQuantity ==
  Evaluated("_evaluate_trade_internal") =>
    /\ \A qty \in evaluation.orders : qty > 0
    /\ evaluation.quantity = 0 =>
         /\ evaluation.orders = {}
         /\ evaluation.order_status = evaluation.trade.order_status

\* ------------------------------------------------ cancelled order claims

\* C39: an order-status event moves a trade to Filled or to Closed only
\* when it reports that the order filled; a Cancelled event never does.
C39_OnlyFillsMarkTrades ==
  [][(/\ last_tick' = ""
      /\ delivered' # None
      /\ \E symbol \in DOMAIN file :
           /\ file'[symbol].trade_status # file[symbol].trade_status
           /\ file'[symbol].trade_status \in {Filled, Closed})
       => delivered'.status = "Filled"]_vars

\* ------------------------------------------- circuit breaker state claims

\* C40: a breaker that is OPEN or HALF_OPEN has failure_count at or above
\* failure_threshold and a last_failure_time, and a breaker that is CLOSED
\* has failure_count below failure_threshold.
C40_StateMatchesFailureCount ==
  /\ breaker.state \in {"OPEN", "HALF_OPEN"} =>
       /\ breaker.failure_count >= breaker.failure_threshold
       /\ ~IsNone(breaker.last_failure_time)
  /\ breaker.state = "CLOSED" => breaker.failure_count < breaker.failure_threshold

====
